---- MODULE Spec2Model ----
(***************************************************************************)
(* Territory-tracking application (AppControleNcs): a document held in one *)
(* file of a remote repository, edited by several browser clients through  *)
(* an optimistic clone-mutate-publish-commit pipeline and re-read by a     *)
(* sync scheduler.  The participant registry of the same repository (a     *)
(* list kept in the browser's storage) is modelled beside it.              *)
(***************************************************************************)
EXTENDS Integers, Sequences, FiniteSets, TLC

(***************************************************************************)
(* Bounds of the model.                                                    *)
(***************************************************************************)
\* total number of pipeline mutations in one behaviour
MaxMutations == 2
\* total number of scheduler triggers (focus, manual, retry, interval tick)
MaxTriggers == 1
\* asynchronous calls (commit, fetch, poll) one client may have in flight
MaxInflight == 2
\* largest house count typed into the sequencing / block forms
MaxChalk == 2
\* largest house count typed into the sequencing form of SpecBlocks
MaxSequence == 3

(***************************************************************************)
(* Value universes.                                                        *)
(***************************************************************************)
Clients == {"c1", "c2"}

\* JS null for string-valued state, and an absent (undefined) object key
Null == "null"
Undef == "undefined"
\* a house without a status key (indexOf gives -1), lastVisit null / absent
NoStatus == 0
NullVisit == 0
NoVisit == -1

Roles == {"Comum", "Capitao", "Admin", "Super Admin"}

roleHierarchy == [r \in Roles |->
    CASE r = "Comum" -> 0
      [] r = "Capitao" -> 1
      [] r = "Admin" -> 2
      [] r = "Super Admin" -> 3]

statusCycle == <<1, 2, 3, 4>>

\* decimal keys: String(n) and Number(key) on the keys the model uses
Digits == <<"1", "2", "3", "4">>
Padded == <<"01", "02", "03", "04">>

String(n) == Digits[n]

PadStart2(n) == Padded[n]

Number(key) ==
    IF \E n \in DOMAIN Digits : Digits[n] = key
      THEN CHOOSE n \in DOMAIN Digits : Digits[n] = key
      ELSE CHOOSE n \in DOMAIN Padded : Padded[n] = key

\* Math.max(0, ...ids.map(Number))
MaxNumber(keys) ==
    IF keys = {} THEN 0
    ELSE CHOOSE m \in {Number(k) : k \in keys} : \A k \in keys : Number(k) <= m

\* object helpers: obj[k] = v, delete obj[k], the empty object
Put(obj, k, v) == [x \in (DOMAIN obj) \cup {k} |-> IF x = k THEN v ELSE obj[x]]

Delete(obj, k) == [x \in (DOMAIN obj) \ {k} |-> obj[x]]

EmptyObj == [x \in {} |-> x]

\* Object.keys(obj)[0] ?? null, for keys in ascending order
FirstKey(obj) ==
    IF DOMAIN obj = {} THEN Null
    ELSE CHOOSE k \in DOMAIN obj : \A j \in DOMAIN obj : Number(k) <= Number(j)

(***************************************************************************)
(* Pure functions of the source.                                           *)
(***************************************************************************)
SameRole(role, required) == role = required

hasCapability(role, required) == roleHierarchy[role] >= roleHierarchy[required]

cloneState(data) == data

CountStatus(houses, s) == Cardinality({k \in DOMAIN houses : houses[k].status = s})

SkipRecalc(block) == block

AddToSummary(block) ==
    [block EXCEPT !.summary =
        [total    |-> @.total + Cardinality(DOMAIN block.houses),
         verde    |-> @.verde + CountStatus(block.houses, 1),
         amarelo  |-> @.amarelo + CountStatus(block.houses, 2),
         laranja  |-> @.laranja + CountStatus(block.houses, 3),
         vermelho |-> @.vermelho + CountStatus(block.houses, 4)]]

recalcBlockSummary(block) ==
    [block EXCEPT !.summary =
        [total    |-> Cardinality(DOMAIN block.houses),
         verde    |-> CountStatus(block.houses, 1),
         amarelo  |-> CountStatus(block.houses, 2),
         laranja  |-> CountStatus(block.houses, 3),
         vermelho |-> CountStatus(block.houses, 4)]]

\* a house object with no keys at all ({...undefined})
NoHouse ==
    [status |-> NoStatus, chalkNumber |-> Undef, officialNumber |-> Undef,
     notes |-> Undef, lastVisit |-> NoVisit]

NewHouse(key) ==
    [status |-> 1, chalkNumber |-> key, officialNumber |-> "",
     notes |-> "", lastVisit |-> NullVisit]

\* statusCycle.indexOf(status), 0-based, -1 when absent
IndexOf(status) ==
    IF \E i \in DOMAIN statusCycle : statusCycle[i] = status
      THEN (CHOOSE i \in DOMAIN statusCycle : statusCycle[i] = status) - 1
      ELSE -1

StopsAtLast(status) == IF status = 4 THEN 4 ELSE status + 1

NextStatus(status) == statusCycle[((IndexOf(status) + 1) % Len(statusCycle)) + 1]

HasBlock(doc, t, b) ==
    /\ t \in DOMAIN doc.territories
    /\ b \in DOMAIN doc.territories[t].blocks

SetBlock(doc, t, b, block) ==
    [doc EXCEPT !.territories[t].blocks = Put(@, b, block)]

(***************************************************************************)
(* The mutators handed to applyStateMutation. Each has a guard saying when *)
(* the mutator runs to completion (it throws otherwise, and then            *)
(* applyStateMutation publishes and commits nothing).                      *)
(***************************************************************************)
CycleOk(doc, t, b, h) == HasBlock(doc, t, b) /\ h \in DOMAIN doc.territories[t].blocks[b].houses

CycleKeepsVisit(doc, t, b, h, now) ==
    LET block == doc.territories[t].blocks[b]
        house == block.houses[h]
        cycled == [house EXCEPT !.status = NextStatus(house.status)]
    IN  SetBlock(doc, t, b, recalcBlockSummary([block EXCEPT !.houses[h] = cycled]))

CycleMutator(doc, t, b, h, now) ==
    LET block == doc.territories[t].blocks[b]
        house == block.houses[h]
        cycled == [house EXCEPT !.status = NextStatus(house.status), !.lastVisit = now]
    IN  SetBlock(doc, t, b, recalcBlockSummary([block EXCEPT !.houses[h] = cycled]))

UpdateHouseOk(doc, t, b) == HasBlock(doc, t, b)

UpdateHouseMutator(doc, t, b, h, officialNumber, notes) ==
    LET block == doc.territories[t].blocks[b]
        old == IF h \in DOMAIN block.houses THEN block.houses[h] ELSE NoHouse
        merged == [old EXCEPT !.officialNumber = officialNumber, !.notes = notes]
    IN  SetBlock(doc, t, b, recalcBlockSummary([block EXCEPT !.houses = Put(@, h, merged)]))

ChalkOk(doc, t, b) == HasBlock(doc, t, b)

ChalkKeepsAll(doc, t, b, max) ==
    LET block == doc.territories[t].blocks[b]
        keys == DOMAIN block.houses \cup {String(i) : i \in 1..max}
        houses == [k \in keys |->
            IF k \in DOMAIN block.houses /\ Number(k) <= max /\ String(Number(k)) = k
              THEN [block.houses[k] EXCEPT !.chalkNumber = k]
            ELSE IF k \in DOMAIN block.houses THEN block.houses[k]
            ELSE NewHouse(k)]
    IN  SetBlock(doc, t, b, recalcBlockSummary([block EXCEPT !.houses = houses]))

ChalkMutator(doc, t, b, max) ==
    LET block == doc.territories[t].blocks[b]
        keep == {k \in DOMAIN block.houses : Number(k) <= max}
        keys == keep \cup {String(i) : i \in 1..max}
        houses == [k \in keys |->
            IF k \in DOMAIN block.houses /\ Number(k) <= max /\ String(Number(k)) = k
              THEN [block.houses[k] EXCEPT !.chalkNumber = k]
            ELSE IF k \in DOMAIN block.houses THEN block.houses[k]
            ELSE NewHouse(k)]
    IN  SetBlock(doc, t, b, recalcBlockSummary([block EXCEPT !.houses = houses]))

OverwritesTerritory(doc, territoryId, name, status, lastUse) ==
    LET nextId == IF territoryId # Null THEN territoryId
                  ELSE PadStart2(MaxNumber(DOMAIN doc.territories) + 1)
    IN  [doc EXCEPT !.territories = Put(@, nextId,
            [name |-> name, status |-> status, lastUse |-> lastUse,
             blocks |-> EmptyObj])]

TerritoryMutator(doc, territoryId, name, status, lastUse) ==
    LET nextId == IF territoryId # Null THEN territoryId
                  ELSE PadStart2(MaxNumber(DOMAIN doc.territories) + 1)
    IN  IF nextId \notin DOMAIN doc.territories
          THEN [doc EXCEPT !.territories = Put(@, nextId,
                   [name |-> name, status |-> status, lastUse |-> lastUse,
                    blocks |-> EmptyObj])]
          ELSE [doc EXCEPT !.territories[nextId].name = name,
                           !.territories[nextId].status = status,
                           !.territories[nextId].lastUse = lastUse]

ClearsTerritories(doc, territoryId) == [doc EXCEPT !.territories = EmptyObj]

DeleteTerritoryMutator(doc, territoryId) ==
    [doc EXCEPT !.territories = Delete(@, territoryId)]

UpsertBlockOk(doc, territoryId) == territoryId \in DOMAIN doc.territories

UpsertRebuildsHouses(doc, territoryId, blockIdOrNull, imageUrl, maxChalk) ==
    LET territory == doc.territories[territoryId]
        blockId == IF blockIdOrNull # Null THEN blockIdOrNull
                   ELSE String(MaxNumber(DOMAIN territory.blocks) + 1)
        houses == [k \in {String(i) : i \in 1..maxChalk} |-> NewHouse(k)]
    IN  SetBlock(doc, territoryId, blockId,
            recalcBlockSummary([summary |-> EmptyObj, imageUrl |-> imageUrl,
                                houses |-> houses]))

UpsertBlockMutator(doc, territoryId, blockIdOrNull, imageUrl, maxChalk) ==
    LET territory == doc.territories[territoryId]
        blockId == IF blockIdOrNull # Null THEN blockIdOrNull
                   ELSE String(MaxNumber(DOMAIN territory.blocks) + 1)
        base == IF blockId \in DOMAIN territory.blocks
                  THEN territory.blocks[blockId]
                  ELSE [summary |-> [total |-> maxChalk, verde |-> maxChalk,
                                     amarelo |-> 0, laranja |-> 0, vermelho |-> 0],
                        imageUrl |-> imageUrl, houses |-> EmptyObj]
        keys == (DOMAIN base.houses) \cup {String(i) : i \in 1..maxChalk}
        houses == [k \in keys |->
            IF k \in DOMAIN base.houses THEN base.houses[k] ELSE NewHouse(k)]
    IN  SetBlock(doc, territoryId, blockId,
            recalcBlockSummary([base EXCEPT !.imageUrl = imageUrl, !.houses = houses]))

DeleteBlockOk(doc, territoryId) == territoryId \in DOMAIN doc.territories

DeleteBlockMutator(doc, territoryId, blockId) ==
    [doc EXCEPT !.territories[territoryId].blocks = Delete(@, blockId)]

UserRolesMutator(doc, roles) == [doc EXCEPT !.appConfig.userRoles = roles]


(***************************************************************************)
(* Codec and remote store. The file content is the YAML text of a          *)
(* document; it travels base64-encoded; the version tag (sha) is the       *)
(* fingerprint of the content.                                             *)
(***************************************************************************)
yamlDump(state) == <<"yaml", state>>

\* texts the file can hold besides the dump of a document: one js-yaml rejects
\* and the empty one, which js-yaml loads as undefined
Malformed == <<"malformed">>

Blank == <<"blank">>

IsDocument(text) == text[1] = "yaml"

yamlThrows(text) == text[1] = "malformed"

yamlLoad(text) == IF IsDocument(text) THEN text[2] ELSE Undef

encodeBase64(payload) == <<"b64", payload>>

decodeBase64(payload) == payload[2]

\* the blob fingerprint the store returns for a content; '' is NoSha
NoSha == <<>>

ShaOf(text) == <<text>>

\* the store replaces the file only when the tag sent names its current content
PutAcceptsAny(file, sha) == TRUE

PutAccepted(file, sha) == sha = ShaOf(file)

(***************************************************************************)
(* Inputs.                                                                 *)
(***************************************************************************)
NoPat == ""
Pat == "ghp"

\* text typed into the e-mail fields, and what trim().toLowerCase() makes of it
RawEmails == {"sa@x", "u@x", " U@X ", ""}

Sanitize(raw) == IF raw = " U@X " THEN "u@x" ELSE raw

Times == {1}
OfficialNumbers == {"7"}
Notes == {"n"}
Names == {"T"}
ImageUrls == {"img"}

\* rows of the user administration form
RoleRows == {<<>>,
             <<<<"sa@x", "Super Admin">>, <<" U@X ", "Admin">>>>,
             <<<<"u@x", "Capitao">>, <<"", "Comum">>, <<" U@X ", "Comum">>>>}

\* Object.fromEntries(rows.map(trim/lower).filter(non-empty)): the last row wins
FirstWins(rows) ==
    LET norm == [i \in DOMAIN rows |-> <<Sanitize(rows[i][1]), rows[i][2]>>]
        keys == {norm[i][1] : i \in DOMAIN norm} \ {""}
    IN  [e \in keys |->
            norm[CHOOSE i \in DOMAIN norm :
                    /\ norm[i][1] = e
                    /\ \A j \in DOMAIN norm : norm[j][1] = e => i <= j][2]]

FromEntries(rows) ==
    LET norm == [i \in DOMAIN rows |-> <<Sanitize(rows[i][1]), rows[i][2]>>]
        keys == {norm[i][1] : i \in DOMAIN norm} \ {""}
    IN  [e \in keys |->
            norm[CHOOSE i \in DOMAIN norm :
                    /\ norm[i][1] = e
                    /\ \A j \in DOMAIN norm : norm[j][1] = e => j <= i][2]]

InitialHouses == [k \in {"1"} |-> NewHouse(k)]

InitialDoc ==
    [appConfig |-> [superAdminEmail |-> "sa@x",
                    userRoles |-> [e \in {"sa@x"} |-> "Super Admin"]],
     territories |-> [t \in {"01"} |->
        [name |-> "T", status |-> "Em Uso", lastUse |-> "2024",
         blocks |-> [b \in {"1"} |->
            [summary |-> [total |-> 1, verde |-> 1, amarelo |-> 0,
                          laranja |-> 0, vermelho |-> 0],
             imageUrl |-> "old", houses |-> InitialHouses]]]]]

\* a house as the file can hold it
House(status, chalkNumber, officialNumber, notes, lastVisit) ==
    [status |-> status, chalkNumber |-> chalkNumber, officialNumber |-> officialNumber,
     notes |-> notes, lastVisit |-> lastVisit]

\* the time of a visit recorded before the behaviour starts
Earlier == 2

\* house collections the only block of the file can hold: none, one house in
\* each status, houses beyond the count sequenced to, a chalk number that is
\* not the key, and a key that is not the decimal form of its number
SampleHouses ==
    {[k \in {} |-> NewHouse(k)]}
    \cup {"1" :> House(1, "1", "", "", NullVisit)}
    \cup {"1" :> House(st, "1", "7", "n", Earlier) : st \in {2, 3, 4}}
    \cup {("1" :> House(2, "1", "7", "n", Earlier)) @@ ("3" :> House(4, "3", "", "", Earlier)),
          ("2" :> House(3, "4", "", "n", Earlier)) @@ ("4" :> House(1, "4", "", "", NullVisit)),
          "01" :> House(1, "01", "", "", NullVisit)}

WithHouses(houses) ==
    [InitialDoc EXCEPT !.territories["01"].blocks["1"] =
        recalcBlockSummary([@ EXCEPT !.houses = houses])]

(***************************************************************************)
(* State.                                                                  *)
(***************************************************************************)
VARIABLES
    appState,             \* per client: <<>> (null) or <<document>>
    remoteSha,            \* per client: last-known version tag, NoSha when ''
    patValue,             \* per client: stored credential, NoPat when ''
    activeEmail,          \* per client
    userRole,             \* per client: role of the session, Null when logged out
    selectedTerritoryId,  \* per client
    selectedBlockId,      \* per client
    showPatModal,         \* per client
    notification,         \* per client: [type, message] or NoNotification
    pollingEnabled,       \* per client
    calls,                \* per client: the asynchronous calls in flight
    remoteFile,           \* content of data/db.yml in the remote repository
    mutations,            \* number of pipeline mutations so far
    triggers,             \* number of scheduler triggers so far
    history,              \* the successful writes, in order
    basis,                \* per client: remote version its document derives from
    overlap,              \* per client: it started a call while another was in flight
    applied,              \* per client: the mutators it has run, in order
    houseEditContext,     \* per client: <<>> (null) or <<the house being edited>>
    participants,         \* registry: this.participants, <<>> (null) or <<array>>
    storage,              \* registry: the item kept under the provider's key
    returned              \* registry: the outcome of the last call made on it

vars == <<appState, remoteSha, patValue, activeEmail, userRole, selectedTerritoryId,
          selectedBlockId, showPatModal, notification, pollingEnabled, calls,
          remoteFile, mutations, triggers, history, basis, overlap, applied,
          houseEditContext, participants, storage, returned>>

\* the state of the territory application
app == <<appState, remoteSha, patValue, activeEmail, userRole, selectedTerritoryId,
         selectedBlockId, showPatModal, notification, pollingEnabled, calls,
         remoteFile, mutations, triggers, history, basis, overlap, applied,
         houseEditContext>>

\* the participant registry and its storage: another tool of the same page,
\* which no handler of the territory application touches
registry == <<participants, storage, returned>>

NoNotification == [type |-> "none", message |-> ""]

Note(type, message) == [type |-> type, message |-> message]

Slots == 1..MaxInflight

\* a call in flight. Of the program: kind, phase, state (the nextState of a commit),
\* content and sha (of a request or response), reason and selTerr (the closure of
\* loadRemoteState). For the record: mutator and seq (which mutation a commit
\* carries), ver (the remote version a document derives from, or that a fetch
\* read) and read (the remote version whose tag a commit read).
IdleCall ==
    [kind |-> "idle", phase |-> "", state |-> <<>>, content |-> <<>>, sha |-> NoSha,
     reason |-> "", selTerr |-> Null, mutator |-> <<>>, seq |-> 0, ver |-> 0, read |-> 0]

Loaded(c) == appState[c] # <<>>

Doc(c) == appState[c][1]

InFlight(c) == {i \in Slots : calls[c][i].kind # "idle"}

HasFreeSlot(c) == InFlight(c) # Slots

FreeSlot(c) == CHOOSE i \in Slots \ InFlight(c) : \A j \in Slots \ InFlight(c) : i <= j

\* loadRemoteState(reason): the GET is sent; the closure's selectedTerritoryId is kept
FetchCall(c, reason) ==
    [IdleCall EXCEPT !.kind = "fetch", !.phase = "req", !.reason = reason,
                     !.selTerr = selectedTerritoryId[c]]

\* the initial-load effect depends on loadRemoteState, which is re-created when
\* patValue or selectedTerritoryId changes: after a render that changed either,
\* the effect runs again and starts loadRemoteState('initial')
Reloads(c, sel, pat) == sel # selectedTerritoryId[c] \/ pat # patValue[c]

ReloadCall(sel) ==
    [IdleCall EXCEPT !.kind = "fetch", !.phase = "req", !.reason = "initial",
                     !.selTerr = sel]

\* the slots of one client (row) that hold no call
FreeIn(row) == {i \in Slots : row[i].kind = "idle"}

CanRender(c, row, sel, pat) == Reloads(c, sel, pat) => FreeIn(row) # {}

\* the calls of c after the render that follows a handler: row, and the reload
AfterRender(c, row, sel, pat) ==
    IF Reloads(c, sel, pat)
      THEN [row EXCEPT ![CHOOSE i \in FreeIn(row) : \A j \in FreeIn(row) : i <= j] =
                           ReloadCall(sel)]
      ELSE row

\* version number of the current remote content
RemoteVer == Len(history)

SelectedTerritoryOk(c) ==
    /\ Loaded(c)
    /\ selectedTerritoryId[c] # Null
    /\ selectedTerritoryId[c] \in DOMAIN Doc(c).territories

SelectedBlockOk(c) ==
    /\ SelectedTerritoryOk(c)
    /\ selectedBlockId[c] # Null
    /\ selectedBlockId[c] \in DOMAIN Doc(c).territories[selectedTerritoryId[c]].blocks

SelectedBlock(c) == Doc(c).territories[selectedTerritoryId[c]].blocks[selectedBlockId[c]]

(***************************************************************************)
(* Participant registry (web/scripts/registry.js) over a storage provider  *)
(* (web/scripts/storage.js): the second tool of the repository.            *)
(***************************************************************************)
\* the members of the imported tables that the registry and its tests name
CLASSIFICATIONS == {"ANCIOS", "SERVOS", "GERAIS"}
PARTICIPATION_STATUS == {"ACTIVE", "SUBSTITUTE", "ABSENT"}
OBJECTIVES == {"PRELETOR", "AUXILIAR", "AUDIO_VIDEO", "VISITANTE", "LEITOR"}
DEFAULT_PERMISSIONS == [classification \in CLASSIFICATIONS |-> <<"default", classification>>]

classificationPriority == <<"ANCIOS", "SERVOS", "GERAIS">>

\* a JS value held by the registry or parsed from the storage: null, or an array
JsNull == <<>>
Array(items) == <<items>>
IsArray(value) == Len(value) = 1

\* the item under the provider's key: none (getItem gives null), the empty
\* text, a text JSON.parse rejects, or the JSON text of a value
NoItem == <<"none">>
EmptyText == <<"">>
Unparsable == <<"unparsable">>
jsonStringify(value) == <<"json", value>>
jsonThrows(raw) == raw[1] # "json"
jsonParse(raw) == raw[2]

\* !raw, !this.storage.getItem(this.key)
Falsy(raw) == raw = NoItem \/ raw = EmptyText

read(raw) ==
    IF Falsy(raw) THEN JsNull
    ELSE IF jsonThrows(raw) THEN JsNull
    ELSE jsonParse(raw)

write(data) == jsonStringify(data)

\* seed(defaultValue): the item it leaves under the key, and what it returns
Seeded(raw, defaultValue) == IF Falsy(raw) THEN write(defaultValue) ELSE raw

seed(raw, defaultValue) == read(Seeded(raw, defaultValue))

\* an object key that may be absent: <<>> when it is (undefined), else <<value>>
Field(object, key) == IF key \in DOMAIN object THEN <<object[key]>> ELSE <<>>

\* a destructured key with its default
Given(object, key, default) == IF key \in DOMAIN object THEN object[key] ELSE default

\* [...new Set(items)]: the first occurrence of each item, in order
Unique(items) ==
    LET first(i) == \A j \in 1..(i - 1) : items[j] # items[i]
        kept == {i \in DOMAIN items : first(i)}
        place(i) == Cardinality({j \in kept : j < i}) + 1
    IN  [p \in 1..Cardinality(kept) |-> items[CHOOSE i \in kept : place(i) = p]]

sanitiseObjectives(objectives) ==
    IF objectives = <<>> THEN <<>>
    ELSE Unique(SelectSeq(objectives[1], LAMBDA item : item \in OBJECTIVES))

Participant(id, name, classification, status, objectives, notes) ==
    [id |-> id, name |-> name, classification |-> classification, status |-> status,
     objectives |-> objectives, permissions |-> DEFAULT_PERMISSIONS[classification],
     notes |-> notes]

SAMPLE_PARTICIPANTS ==
    << Participant("p-anci-1", "Carlos Alberto", "ANCIOS", "ACTIVE",
                   <<"PRELETOR", "AUXILIAR">>, "Preferencia por discursos iniciais"),
       Participant("p-servo-1", "Marcos Pereira", "SERVOS", "ACTIVE",
                   <<"AUXILIAR", "AUDIO_VIDEO">>, "Opera a projecao quando necessario"),
       Participant("p-geral-1", "Ana Souza", "GERAIS", "SUBSTITUTE",
                   <<"VISITANTE", "LEITOR">>, "Disponivel para leituras de ultima hora"),
       Participant("p-anci-2", "Joao Batista", "ANCIOS", "ABSENT",
                   <<"PRELETOR">>, "Ausente nas proximas 2 semanas") >>

buildPermissions(classification) == DEFAULT_PERMISSIONS[classification]

\* name.trim() on the names of the model
trim(name) == IF name = " Bia " THEN "Bia" ELSE name

\* the checks of normaliseParticipant that throw
normaliseThrows(raw) ==
    LET name == Given(raw, "name", "")
        classification == Given(raw, "classification", "")
        status == Given(raw, "status", "ACTIVE")
    IN  \/ name = "" \/ classification = ""
        \/ classification \notin CLASSIFICATIONS
        \/ status \notin PARTICIPATION_STATUS

normaliseParticipant(raw, generated, now) ==
    [id |-> Given(raw, "id", generated),
     name |-> trim(raw.name),
     classification |-> raw.classification,
     status |-> Given(raw, "status", "ACTIVE"),
     objectives |-> sanitiseObjectives(<<Given(raw, "objectives", <<>>)>>),
     permissions |-> Given(raw, "permissions", buildPermissions(raw.classification)),
     notes |-> Given(raw, "notes", ""),
     createdAt |-> Given(raw, "createdAt", now),
     updatedAt |-> now]

\* a.name.localeCompare(b.name, "pt-BR", {sensitivity: "base"}) on the names of
\* the model: letters compare without case
collation ==
    [name \in {"Ana Souza", "Ativo 1", "Ausente", "Bia", "bia", "Carlos Alberto",
               "Joao Batista", "Marcos Pereira", "Substituto"} |->
        CASE name = "Ana Souza" -> 1
          [] name = "Ativo 1" -> 2
          [] name = "Ausente" -> 3
          [] name \in {"Bia", "bia"} -> 4
          [] name = "Carlos Alberto" -> 5
          [] name = "Joao Batista" -> 6
          [] name = "Marcos Pereira" -> 7
          [] name = "Substituto" -> 8]

localeCompare(a, b) == collation[a] - collation[b]

\* [...collection].sort(...): a stable sort by the weight of getter(item) in
\* priorityOrder (unlisted values last), then by name; every getter of the
\* registry reads one key of the item, named here by getter
sortByPriority(collection, getter, priorityOrder) ==
    LET weight(item) ==
            IF \E i \in DOMAIN priorityOrder : priorityOrder[i] = item[getter]
              THEN (CHOOSE i \in DOMAIN priorityOrder : priorityOrder[i] = item[getter]) - 1
              ELSE Len(priorityOrder)
        compare(a, b) ==
            IF weight(a) # weight(b) THEN weight(a) - weight(b)
            ELSE localeCompare(a.name, b.name)
        before(j, i) ==
            \/ compare(collection[j], collection[i]) < 0
            \/ compare(collection[j], collection[i]) = 0 /\ j < i
        place(i) == Cardinality({j \in DOMAIN collection : before(j, i)}) + 1
    IN  [p \in DOMAIN collection |->
            collection[CHOOSE i \in DOMAIN collection : place(i) = p]]

\* load(): the list the registry holds and the item it leaves in the storage
sanitised(stored) ==
    [i \in DOMAIN stored |->
        [key \in DOMAIN stored[i] \cup {"objectives"} |->
            IF key = "objectives" THEN sanitiseObjectives(Field(stored[i], "objectives"))
            ELSE stored[i][key]]]

HasParticipants(stored) == IsArray(stored) /\ Len(stored[1]) > 0

loaded(raw) ==
    IF HasParticipants(read(raw)) THEN Array(sanitised(read(raw)[1]))
    ELSE seed(raw, Array(SAMPLE_PARTICIPANTS))

afterLoad(raw) ==
    IF HasParticipants(read(raw)) THEN raw
    ELSE Seeded(raw, Array(SAMPLE_PARTICIPANTS))

\* all(): a copy of the list (it throws when the registry holds null)
all(held) == held[1]

\* what a call on the registry gave back
NoCall == [call |-> "none", threw |-> FALSE, value |-> <<>>]
Done(call) == [call |-> call, threw |-> FALSE, value |-> <<>>]
Gave(call, value) == [call |-> call, threw |-> FALSE, value |-> <<value>>]
Threw(call) == [call |-> call, threw |-> TRUE, value |-> <<>>]

\* the page before its registry is constructed: nothing stored under the key
NoRegistry ==
    /\ participants = JsNull
    /\ storage = NoItem
    /\ returned = NoCall

\* the state of every client after construction, before anything is fetched
Constructed ==
    /\ appState = [c \in Clients |-> <<>>]
    /\ remoteSha = [c \in Clients |-> NoSha]
    /\ \E stored \in {NoPat, Pat} : patValue = [c \in Clients |-> stored]
    /\ activeEmail = [c \in Clients |-> ""]
    /\ userRole = [c \in Clients |-> Null]
    /\ selectedTerritoryId = [c \in Clients |-> Null]
    /\ selectedBlockId = [c \in Clients |-> Null]
    /\ showPatModal = [c \in Clients |-> FALSE]
    /\ notification = [c \in Clients |-> NoNotification]
    /\ pollingEnabled = [c \in Clients |-> TRUE]
    /\ calls = [c \in Clients |->
                  [i \in Slots |-> IF i = 1 THEN FetchCall(c, "initial") ELSE IdleCall]]
    /\ mutations = 0
    /\ triggers = 0
    /\ history = <<>>
    /\ basis = [c \in Clients |-> 0]
    /\ overlap = [c \in Clients |-> FALSE]
    /\ applied = [c \in Clients |-> <<>>]
    /\ houseEditContext = [c \in Clients |-> <<>>]

Init == Constructed /\ remoteFile = yamlDump(InitialDoc) /\ NoRegistry


(***************************************************************************)
(* Mutation pipeline: applyStateMutation and commitToGitHub up to the      *)
(* first request. A mutator is the closure the handler passes: its name    *)
(* and the values it captured.                                             *)
(***************************************************************************)
Mutator(name, args) == [name |-> name, args |-> args]

\* the mutator runs to completion on doc (it throws otherwise)
Runs(m, doc) ==
    CASE m.name = "cycle" -> CycleOk(doc, m.args[1], m.args[2], m.args[3])
      [] m.name = "house" -> UpdateHouseOk(doc, m.args[1], m.args[2])
      [] m.name = "chalk" -> ChalkOk(doc, m.args[1], m.args[2])
      [] m.name = "upsertBlock" -> UpsertBlockOk(doc, m.args[1])
      [] m.name = "deleteBlock" -> DeleteBlockOk(doc, m.args[1])
      [] OTHER -> TRUE

\* mutator(draft)
Run(m, doc) ==
    CASE m.name = "cycle" ->
            CycleMutator(doc, m.args[1], m.args[2], m.args[3], m.args[4])
      [] m.name = "house" ->
            UpdateHouseMutator(doc, m.args[1], m.args[2], m.args[3], m.args[4], m.args[5])
      [] m.name = "chalk" -> ChalkMutator(doc, m.args[1], m.args[2], m.args[3])
      [] m.name = "territory" ->
            TerritoryMutator(doc, m.args[1], m.args[2], m.args[3], m.args[4])
      [] m.name = "deleteTerritory" -> DeleteTerritoryMutator(doc, m.args[1])
      [] m.name = "upsertBlock" ->
            UpsertBlockMutator(doc, m.args[1], m.args[2], m.args[3], m.args[4])
      [] m.name = "deleteBlock" -> DeleteBlockMutator(doc, m.args[1], m.args[2])
      [] m.name = "userRoles" -> UserRolesMutator(doc, m.args[1])

SetCall(c, i, call) == [calls EXCEPT ![c][i] = call]

\* a call is started: noted when another call of the client is still in flight
Started(c) == overlap' = [overlap EXCEPT ![c] = @ \/ InFlight(c) # {}]

\* the document the mutator is run on: the latest local view
LastFetched(c) == yamlLoad(remoteSha[c][1])

DraftBase(c) == Doc(c)

\* the local view once the mutator has run: the draft
KeepView(c, draft) == appState[c]

PublishDraft(c, draft) == <<draft>>

\* commitToGitHub(nextState): the call that starts by reading the version tag
CommitsView(c, nextState, m) ==
    [IdleCall EXCEPT !.kind = "commit", !.phase = "sha", !.state = appState[c],
                     !.selTerr = selectedTerritoryId[c], !.mutator = <<m>>,
                     !.seq = mutations + 1, !.ver = basis[c]]

CommitCall(c, nextState, m) ==
    [IdleCall EXCEPT !.kind = "commit", !.phase = "sha", !.state = <<nextState>>,
                     !.selTerr = selectedTerritoryId[c], !.mutator = <<m>>,
                     !.seq = mutations + 1, !.ver = basis[c]]

ensurePatBeforeCommit(c) == patValue[c] # NoPat

\* what running the mutator leaves of the snapshot it was given the clone of:
\* the clone is deep, so the snapshot is as it was
MutatedInPlace(m, base) == Run(m, base)

Undisturbed(m, base) == base

\* the calls of c once the mutator has run: a commit in flight still holds the
\* snapshot it was handed, which is the local view when no fetch has replaced it
Snapshots(c, m) ==
    [i \in Slots |->
        IF calls[c][i].kind = "commit" /\ calls[c][i].state = appState[c]
          THEN [calls[c][i] EXCEPT !.state = <<Undisturbed(m, @[1])>>]
          ELSE calls[c][i]]

\* sel: the territory selected once the handler that commits has returned
commitToGitHub(c, nextState, m, sel) ==
    IF ~ensurePatBeforeCommit(c)
      THEN /\ notification' = [notification EXCEPT ![c] =
                  Note("error", "Configure o PAT para enviar alteracoes ao GitHub")]
           /\ showPatModal' = [showPatModal EXCEPT ![c] = TRUE]
           /\ CanRender(c, Snapshots(c, m), sel, patValue[c])
           /\ calls' = [calls EXCEPT ![c] = AfterRender(c, Snapshots(c, m), sel, patValue[c])]
           /\ overlap' = [overlap EXCEPT ![c] =
                  @ \/ (Reloads(c, sel, patValue[c]) /\ InFlight(c) # {})]
      ELSE /\ HasFreeSlot(c)
           /\ notification' = [notification EXCEPT ![c] =
                  Note("info", "Salvando alteracoes")]
           /\ LET row == [Snapshots(c, m) EXCEPT ![FreeSlot(c)] = CommitCall(c, nextState, m)]
              IN  /\ CanRender(c, row, sel, patValue[c])
                  /\ calls' = [calls EXCEPT ![c] = AfterRender(c, row, sel, patValue[c])]
           /\ overlap' = [overlap EXCEPT ![c] =
                  @ \/ InFlight(c) # {} \/ Reloads(c, sel, patValue[c])]
           /\ UNCHANGED showPatModal

\* applyStateMutation(mutator, label)
applyStateMutation(c, m, sel) ==
    /\ Loaded(c)
    /\ Runs(m, cloneState(DraftBase(c)))
    /\ mutations < MaxMutations
    /\ mutations' = mutations + 1
    /\ applied' = [applied EXCEPT ![c] = Append(@, m)]
    /\ LET draft == Run(m, cloneState(DraftBase(c)))
       IN  /\ appState' = [appState EXCEPT ![c] = PublishDraft(c, draft)]
           /\ commitToGitHub(c, draft, m, sel)
    /\ UNCHANGED <<remoteSha, patValue, registry, activeEmail, userRole, pollingEnabled,
                   remoteFile, history, basis, triggers>>

cycleHouseStatus(c, houseId, now) ==
    /\ SelectedBlockOk(c)
    /\ applyStateMutation(c, Mutator("cycle",
           <<selectedTerritoryId[c], selectedBlockId[c], houseId, now>>),
           selectedTerritoryId[c])
    /\ UNCHANGED <<selectedTerritoryId, selectedBlockId>>
    /\ UNCHANGED houseEditContext

updateHouseData(c, houseId, officialNumber, notes) ==
    /\ selectedTerritoryId[c] # Null
    /\ selectedBlockId[c] # Null
    /\ applyStateMutation(c, Mutator("house",
           <<selectedTerritoryId[c], selectedBlockId[c], houseId, officialNumber, notes>>),
           selectedTerritoryId[c])
    /\ UNCHANGED <<selectedTerritoryId, selectedBlockId>>

applyChalkSequencing(c, blockId, max) ==
    /\ selectedTerritoryId[c] # Null
    /\ Loaded(c)
    /\ applyStateMutation(c, Mutator("chalk", <<selectedTerritoryId[c], blockId, max>>),
           selectedTerritoryId[c])
    /\ UNCHANGED <<selectedTerritoryId, selectedBlockId>>
    /\ UNCHANGED houseEditContext

createOrUpdateTerritory(c, territoryId, name, status, lastUse) ==
    /\ Loaded(c)
    /\ territoryId = Null => MaxNumber(DOMAIN Doc(c).territories) < Len(Padded)
    /\ applyStateMutation(c, Mutator("territory", <<territoryId, name, status, lastUse>>),
           selectedTerritoryId[c])
    /\ UNCHANGED <<selectedTerritoryId, selectedBlockId>>
    /\ UNCHANGED houseEditContext

deleteTerritory(c, territoryId) ==
    /\ applyStateMutation(c, Mutator("deleteTerritory", <<territoryId>>),
           IF selectedTerritoryId[c] = territoryId THEN Null ELSE selectedTerritoryId[c])
    /\ IF selectedTerritoryId[c] = territoryId
         THEN /\ selectedTerritoryId' = [selectedTerritoryId EXCEPT ![c] = Null]
              /\ selectedBlockId' = [selectedBlockId EXCEPT ![c] = Null]
         ELSE UNCHANGED <<selectedTerritoryId, selectedBlockId>>
    /\ UNCHANGED houseEditContext

upsertBlock(c, territoryId, blockId, imageUrl, maxChalk) ==
    /\ Loaded(c)
    /\ (blockId = Null /\ territoryId \in DOMAIN Doc(c).territories) =>
          MaxNumber(DOMAIN Doc(c).territories[territoryId].blocks) < Len(Digits)
    /\ applyStateMutation(c, Mutator("upsertBlock",
           <<territoryId, blockId, imageUrl, maxChalk>>),
           selectedTerritoryId[c])
    /\ UNCHANGED <<selectedTerritoryId, selectedBlockId>>
    /\ UNCHANGED houseEditContext

deleteBlock(c, territoryId, blockId) ==
    /\ applyStateMutation(c, Mutator("deleteBlock", <<territoryId, blockId>>),
           selectedTerritoryId[c])
    /\ IF selectedBlockId[c] = blockId
         THEN selectedBlockId' = [selectedBlockId EXCEPT ![c] = Null]
         ELSE UNCHANGED selectedBlockId
    /\ UNCHANGED selectedTerritoryId
    /\ UNCHANGED houseEditContext

updateUserRoles(c, roles) ==
    /\ applyStateMutation(c, Mutator("userRoles", <<roles>>),
           selectedTerritoryId[c])
    /\ UNCHANGED <<selectedTerritoryId, selectedBlockId>>
    /\ UNCHANGED houseEditContext

handleUserModalSubmit(c, rows) == updateUserRoles(c, FromEntries(rows))

(***************************************************************************)
(* commitToGitHub after its first request.                                 *)
(***************************************************************************)
Others == <<patValue, registry, houseEditContext, activeEmail, userRole, showPatModal,
            pollingEnabled, mutations,
            triggers, overlap, applied>>

\* the tag the commit sends with its write: the one its own read returned
CachedSha(c, shaPayload) == remoteSha[c]

CommitSha(c, shaPayload) == shaPayload

\* the GET of the commit is answered: the PUT goes out with the tag just read
CommitShaRespond(c, i) ==
    /\ calls[c][i].kind = "commit"
    /\ calls[c][i].phase = "sha"
    /\ calls' = SetCall(c, i, [calls[c][i] EXCEPT
                   !.phase = "put",
                   !.content = <<encodeBase64(yamlDump(calls[c][i].state[1]))>>,
                   !.sha = CommitSha(c, ShaOf(remoteFile)),
                   !.read = RemoteVer])
    /\ UNCHANGED <<appState, remoteSha, selectedTerritoryId, selectedBlockId, notification,
                   remoteFile, history, basis, Others>>

\* what the commit does once its write is confirmed, and once it has failed
NoRefetch(c, i) == IdleCall

PostCommit(c, i) ==
    [IdleCall EXCEPT !.kind = "fetch", !.phase = "req", !.reason = "post-commit",
                     !.selTerr = calls[c][i].selTerr]

RefetchAnyway(c, i) == PostCommit(c, i)

CommitFailed(c, i) == IdleCall

\* the GET of the commit fails (!shaResponse.ok)
CommitShaFail(c, i) ==
    /\ calls[c][i].kind = "commit"
    /\ calls[c][i].phase = "sha"
    /\ calls' = SetCall(c, i, CommitFailed(c, i))
    /\ notification' = [notification EXCEPT ![c] = Note("error", "Erro ao obter SHA (500)")]
    /\ UNCHANGED <<appState, remoteSha, selectedTerritoryId, selectedBlockId,
                   remoteFile, history, basis, Others>>

\* the PUT reaches the store: accepted (then the refetch starts) or rejected (409)
CommitPut(c, i) ==
    /\ calls[c][i].kind = "commit"
    /\ calls[c][i].phase = "put"
    /\ IF PutAccepted(remoteFile, calls[c][i].sha)
         THEN /\ remoteFile' = decodeBase64(calls[c][i].content[1])
              /\ history' = Append(history, [by |-> c, base |-> calls[c][i].ver,
                                             seq |-> calls[c][i].seq,
                                             mutator |-> calls[c][i].mutator[1],
                                             state |-> calls[c][i].state[1]])
              /\ notification' = [notification EXCEPT ![c] =
                     Note("success", "Commit aplicado com sucesso")]
              /\ calls' = SetCall(c, i, PostCommit(c, i))
         ELSE /\ notification' = [notification EXCEPT ![c] =
                     Note("error", "Erro ao confirmar commit (409)")]
              /\ calls' = SetCall(c, i, CommitFailed(c, i))
              /\ UNCHANGED <<remoteFile, history>>
    /\ UNCHANGED <<appState, remoteSha, selectedTerritoryId, selectedBlockId, basis, Others>>

\* the PUT fails in transport (!putResponse.ok for another reason)
CommitPutFail(c, i) ==
    /\ calls[c][i].kind = "commit"
    /\ calls[c][i].phase = "put"
    /\ calls' = SetCall(c, i, CommitFailed(c, i))
    /\ notification' = [notification EXCEPT ![c] =
           Note("error", "Erro ao confirmar commit (500)")]
    /\ UNCHANGED <<appState, remoteSha, selectedTerritoryId, selectedBlockId,
                   remoteFile, history, basis, Others>>

(***************************************************************************)
(* Sync scheduler: loadRemoteState and its triggers.                       *)
(***************************************************************************)
Quiet == <<patValue, registry, houseEditContext, activeEmail, userRole, showPatModal,
           pollingEnabled, mutations,
          applied>>

Triggered ==
    /\ triggers < MaxTriggers
    /\ triggers' = triggers + 1

StartFetch(c, reason) ==
    /\ HasFreeSlot(c)
    /\ Triggered
    /\ Started(c)
    /\ calls' = SetCall(c, FreeSlot(c), FetchCall(c, reason))
    /\ UNCHANGED <<appState, remoteSha, selectedTerritoryId, selectedBlockId, notification,
                   remoteFile, history, basis, Quiet>>

\* window focus
handleFocus(c) == StartFetch(c, "focus")

\* the "Sincronizar" button
ManualSync(c) == StartFetch(c, "manual")

\* the "Tentar novamente" button of the screen shown while no document is loaded
Retry(c) ==
    /\ ~Loaded(c)
    /\ \A i \in Slots : calls[c][i].kind # "fetch"
    /\ StartFetch(c, "retry")

\* the store answers the GET of a fetch with the content and tag of that instant
FetchRespond(c, i) ==
    /\ calls[c][i].kind = "fetch"
    /\ calls[c][i].phase = "req"
    /\ calls' = SetCall(c, i, [calls[c][i] EXCEPT
                   !.phase = "resp",
                   !.content = <<encodeBase64(remoteFile)>>,
                   !.sha = ShaOf(remoteFile),
                   !.ver = RemoteVer])
    /\ UNCHANGED <<appState, remoteSha, selectedTerritoryId, selectedBlockId, notification,
                   remoteFile, history, basis, Others>>

\* what the catch block of a fetch leaves in the local document: it only
\* reports, so the document is the one held before the fetch
ClearedOnFailure(c) == <<>>

KeptOnFailure(c) == appState[c]

\* the GET of a fetch fails (!response.ok)
FetchFail(c, i) ==
    /\ calls[c][i].kind = "fetch"
    /\ calls[c][i].phase = "req"
    /\ calls' = SetCall(c, i, IdleCall)
    /\ appState' = [appState EXCEPT ![c] = KeptOnFailure(c)]
    /\ notification' = [notification EXCEPT ![c] =
           Note("error", "Falha ao buscar dados (500)")]
    /\ UNCHANGED <<remoteSha, selectedTerritoryId, selectedBlockId,
                   remoteFile, history, basis, Others>>

SyncMessage(reason) ==
    IF reason = "initial" THEN "Dados carregados do GitHub"
    ELSE IF reason = "post-commit" THEN "Estado sincronizado apos commit"
    ELSE "Dados sincronizados"

\* yaml.load throws: the catch block reports, nothing was set
DecodeThrows(c, i) ==
    /\ calls' = SetCall(c, i, IdleCall)
    /\ appState' = [appState EXCEPT ![c] = KeptOnFailure(c)]
    /\ notification' = [notification EXCEPT ![c] = Note("error", "YAMLException")]
    /\ UNCHANGED <<remoteSha, selectedTerritoryId, selectedBlockId, basis, overlap>>

\* yaml.load returns undefined: the document and the tag are set before
\* parsed.territories is read, which throws only when no territory is selected
LoadsUndefined(c, i) ==
    /\ calls' = SetCall(c, i, IdleCall)
    /\ appState' = [appState EXCEPT ![c] = <<>>]
    /\ remoteSha' = [remoteSha EXCEPT ![c] = calls[c][i].sha]
    /\ notification' = [notification EXCEPT ![c] =
           IF calls[c][i].selTerr = Null
             THEN Note("error", "Cannot read properties of undefined")
             ELSE Note("success", SyncMessage(calls[c][i].reason))]
    /\ basis' = [basis EXCEPT ![c] = calls[c][i].ver]
    /\ UNCHANGED <<selectedTerritoryId, selectedBlockId, overlap>>

\* the document a fetch publishes: the parsed one, whole
KeepsLocal(c, parsed) == IF Loaded(c) THEN Doc(c) ELSE parsed

Fetched(c, parsed) == parsed

\* the tag a fetch publishes: the one of its own response
KeepsNewerSha(c, i) == IF calls[c][i].ver < basis[c] THEN remoteSha[c] ELSE calls[c][i].sha

FetchedSha(c, i) == calls[c][i].sha

\* yaml.load returns a document: it replaces the local one, the tag follows
LoadsDocument(c, i, parsed) ==
    LET firstTerritory == FirstKey(parsed.territories)
        firstBlock == IF firstTerritory # Null
                        THEN FirstKey(parsed.territories[firstTerritory].blocks)
                        ELSE Null
    IN  /\ appState' = [appState EXCEPT ![c] = <<Fetched(c, parsed)>>]
        /\ remoteSha' = [remoteSha EXCEPT ![c] = FetchedSha(c, i)]
        /\ notification' = [notification EXCEPT ![c] =
               Note("success", SyncMessage(calls[c][i].reason))]
        /\ IF calls[c][i].selTerr = Null
             THEN /\ selectedTerritoryId' =
                         [selectedTerritoryId EXCEPT ![c] = firstTerritory]
                  /\ selectedBlockId' = [selectedBlockId EXCEPT ![c] = firstBlock]
             ELSE UNCHANGED <<selectedTerritoryId, selectedBlockId>>
        /\ LET row == [calls[c] EXCEPT ![i] = IdleCall]
               sel == IF calls[c][i].selTerr = Null THEN firstTerritory
                      ELSE selectedTerritoryId[c]
           IN  /\ calls' = [calls EXCEPT ![c] = AfterRender(c, row, sel, patValue[c])]
               /\ overlap' = [overlap EXCEPT ![c] =
                      @ \/ (Reloads(c, sel, patValue[c]) /\ FreeIn(row) # Slots)]
        /\ basis' = [basis EXCEPT ![c] = calls[c][i].ver]

\* the response of a fetch arrives: decode, replace the document and the tag
FetchDeliver(c, i) ==
    /\ calls[c][i].kind = "fetch"
    /\ calls[c][i].phase = "resp"
    /\ LET decoded == decodeBase64(calls[c][i].content[1])
       IN  IF yamlThrows(decoded) THEN DecodeThrows(c, i)
           ELSE IF IsDocument(decoded) THEN LoadsDocument(c, i, yamlLoad(decoded))
           ELSE LoadsUndefined(c, i)
    /\ UNCHANGED <<remoteFile, history, patValue, registry, houseEditContext, activeEmail,
                   userRole, showPatModal,
                   pollingEnabled, mutations, triggers, applied>>

\* the interval timer fires: nothing is sent while no tag is known
Interval(c, counted) ==
    /\ pollingEnabled[c]
    /\ remoteSha[c] # NoSha
    /\ HasFreeSlot(c)
    /\ IF counted THEN Triggered ELSE UNCHANGED triggers
    /\ Started(c)
    /\ calls' = SetCall(c, FreeSlot(c),
                   [IdleCall EXCEPT !.kind = "poll", !.phase = "req",
                                    !.sha = remoteSha[c],
                                    !.selTerr = selectedTerritoryId[c]])
    /\ UNCHANGED <<appState, remoteSha, selectedTerritoryId, selectedBlockId, notification,
                   remoteFile, history, basis, Quiet>>

Tick(c) == Interval(c, TRUE)

\* the tag read by the tick is compared with the one known when it fired
PollRespond(c, i) ==
    /\ calls[c][i].kind = "poll"
    /\ calls' = SetCall(c, i,
                   IF ShaOf(remoteFile) # calls[c][i].sha
                     THEN [IdleCall EXCEPT !.kind = "fetch", !.phase = "req",
                                           !.reason = "polling",
                                           !.selTerr = calls[c][i].selTerr]
                     ELSE IdleCall)
    /\ UNCHANGED <<appState, remoteSha, selectedTerritoryId, selectedBlockId, notification,
                   remoteFile, history, basis, Others>>

\* the request of the tick fails: silently dropped
PollFail(c, i) ==
    /\ calls[c][i].kind = "poll"
    /\ calls' = SetCall(c, i, IdleCall)
    /\ UNCHANGED <<appState, remoteSha, selectedTerritoryId, selectedBlockId, notification,
                   remoteFile, history, basis, Others>>

(***************************************************************************)
(* Session, credential and view state.                                     *)
(***************************************************************************)
View == <<appState, remoteSha, calls, remoteFile, history, basis, mutations, triggers,
          overlap, applied>>

\* userRoles[sanitized] ?? 'Comum'
Unlisted(roles, sanitized) == "Comum"

ResolveRole(roles, sanitized) ==
    IF sanitized \in DOMAIN roles THEN roles[sanitized] ELSE "Comum"

handleLogin(c, emailInput) ==
    /\ Loaded(c)
    /\ userRole[c] = Null
    /\ Sanitize(emailInput) # ""
    /\ LET sanitized == Sanitize(emailInput)
           roles == Doc(c).appConfig.userRoles
           role == ResolveRole(roles, sanitized)
       IN  /\ activeEmail' = [activeEmail EXCEPT ![c] = sanitized]
           /\ userRole' = [userRole EXCEPT ![c] = role]
           /\ notification' = [notification EXCEPT ![c] =
                  Note("success", "Sessao iniciada")]
           /\ showPatModal' = [showPatModal EXCEPT ![c] =
                  IF role = "Super Admin" /\ patValue[c] = NoPat THEN TRUE ELSE @]
    /\ UNCHANGED <<View, patValue, registry, houseEditContext, selectedTerritoryId,
                   selectedBlockId, pollingEnabled>>

logout(c) ==
    /\ userRole[c] # Null
    /\ activeEmail' = [activeEmail EXCEPT ![c] = ""]
    /\ userRole' = [userRole EXCEPT ![c] = Null]
    /\ notification' = [notification EXCEPT ![c] = Note("info", "Sessao encerrada")]
    /\ UNCHANGED <<View, patValue, registry, houseEditContext, selectedTerritoryId,
                   selectedBlockId, showPatModal,
                   pollingEnabled>>

\* the token is typed into the field (setPatValue) and the form is submitted
handlePatSubmit(c) ==
    /\ showPatModal[c]
    /\ patValue' = [patValue EXCEPT ![c] = Pat]
    /\ showPatModal' = [showPatModal EXCEPT ![c] = FALSE]
    /\ notification' = [notification EXCEPT ![c] = Note("success", "PAT salvo localmente")]
    /\ CanRender(c, calls[c], selectedTerritoryId[c], Pat)
    /\ calls' = [calls EXCEPT ![c] = AfterRender(c, calls[c], selectedTerritoryId[c], Pat)]
    /\ overlap' = [overlap EXCEPT ![c] =
           @ \/ (Reloads(c, selectedTerritoryId[c], Pat) /\ InFlight(c) # {})]
    /\ UNCHANGED <<appState, remoteSha, remoteFile, history, basis, mutations, triggers,
                   applied, activeEmail, userRole, selectedTerritoryId, selectedBlockId,
                   pollingEnabled, registry, houseEditContext>>

TogglePolling(c) ==
    /\ pollingEnabled' = [pollingEnabled EXCEPT ![c] = ~@]
    /\ UNCHANGED <<View, patValue, registry, houseEditContext, activeEmail, userRole,
                   selectedTerritoryId,
                   selectedBlockId, showPatModal, notification>>

SelectTerritory(c, territoryId) ==
    /\ Loaded(c)
    /\ territoryId \in DOMAIN Doc(c).territories
    /\ selectedTerritoryId' = [selectedTerritoryId EXCEPT ![c] = territoryId]
    /\ selectedBlockId' = [selectedBlockId EXCEPT ![c] =
           FirstKey(Doc(c).territories[territoryId].blocks)]
    /\ CanRender(c, calls[c], territoryId, patValue[c])
    /\ calls' = [calls EXCEPT ![c] = AfterRender(c, calls[c], territoryId, patValue[c])]
    /\ overlap' = [overlap EXCEPT ![c] =
           @ \/ (Reloads(c, territoryId, patValue[c]) /\ InFlight(c) # {})]
    /\ UNCHANGED <<appState, remoteSha, remoteFile, history, basis, mutations, triggers,
                   applied, patValue, registry, houseEditContext, activeEmail, userRole,
            showPatModal, notification,
                   pollingEnabled>>

SelectBlock(c, blockId) ==
    /\ SelectedTerritoryOk(c)
    /\ blockId \in DOMAIN Doc(c).territories[selectedTerritoryId[c]].blocks
    /\ selectedBlockId' = [selectedBlockId EXCEPT ![c] = blockId]
    /\ UNCHANGED <<View, patValue, registry, houseEditContext, activeEmail, userRole,
                   selectedTerritoryId, showPatModal,
                   notification, pollingEnabled>>

(***************************************************************************)
(* What the rendered page offers: each control is shown to a logged-in     *)
(* session whose role has the capability the page asks for.                *)
(***************************************************************************)
RequiredRole ==
    [house |-> "Comum", chalk |-> "Capitao", territory |-> "Admin", block |-> "Admin",
     users |-> "Super Admin", pat |-> "Super Admin"]

MainScreen(c) == Loaded(c) /\ userRole[c] # Null

Shown(c, control) ==
    /\ MainScreen(c)
    /\ hasCapability(userRole[c], RequiredRole[control])

\* gate: the handler is reached through its control of the page (otherwise it
\* is invoked whatever the page shows); seq: the user acts only while none of
\* the client's calls is in flight
Quiescent(c) == InFlight(c) = {}

May(c, gate, seq, control) ==
    /\ gate => Shown(c, control)
    /\ seq => Quiescent(c)

CycleHouse(c, gate, seq) ==
    /\ May(c, gate, seq, "house")
    /\ SelectedBlockOk(c)
    /\ \E houseId \in DOMAIN SelectedBlock(c).houses, now \in Times :
          cycleHouseStatus(c, houseId, now)

\* the house keys a call of updateHouseData can name: the form names a house of
\* the selected block, a call made otherwise any key
HouseIds == {String(i) : i \in 1..MaxChalk}

EditHouse(c, gate, seq) ==
    /\ May(c, gate, seq, "house")
    /\ SelectedBlockOk(c)
    /\ \E houseId \in IF gate THEN DOMAIN SelectedBlock(c).houses ELSE HouseIds,
          officialNumber \in OfficialNumbers, notes \in Notes :
          updateHouseData(c, houseId, officialNumber, notes)
    /\ UNCHANGED houseEditContext

Sequence(c, gate, seq) ==
    /\ May(c, gate, seq, "chalk")
    /\ SelectedBlockOk(c)
    /\ \E max \in 1..MaxChalk : applyChalkSequencing(c, selectedBlockId[c], max)

SaveTerritory(c, gate, seq) ==
    /\ May(c, gate, seq, "territory")
    /\ Loaded(c)
    /\ \E territoryId \in {Null} \cup DOMAIN Doc(c).territories, name \in Names :
          createOrUpdateTerritory(c, territoryId, name, "Em Uso", "2025")

RemoveTerritory(c, gate, seq) ==
    /\ May(c, gate, seq, "territory")
    /\ Loaded(c)
    /\ \E territoryId \in DOMAIN Doc(c).territories : deleteTerritory(c, territoryId)

SaveBlock(c, gate, seq) ==
    /\ May(c, gate, seq, "block")
    /\ SelectedTerritoryOk(c)
    /\ \E blockId \in {Null} \cup DOMAIN Doc(c).territories[selectedTerritoryId[c]].blocks,
          imageUrl \in ImageUrls, maxChalk \in 1..MaxChalk :
          upsertBlock(c, selectedTerritoryId[c], blockId, imageUrl, maxChalk)

RemoveBlock(c, gate, seq) ==
    /\ May(c, gate, seq, "block")
    /\ SelectedTerritoryOk(c)
    /\ \E blockId \in DOMAIN Doc(c).territories[selectedTerritoryId[c]].blocks :
          deleteBlock(c, selectedTerritoryId[c], blockId)

SaveUsers(c, gate, seq) ==
    /\ May(c, gate, seq, "users")
    /\ \E rows \in RoleRows : handleUserModalSubmit(c, rows)

OpenPatModal(c) ==
    /\ Shown(c, "pat")
    /\ ~showPatModal[c]
    /\ showPatModal' = [showPatModal EXCEPT ![c] = TRUE]
    /\ UNCHANGED <<View, patValue, registry, houseEditContext, activeEmail, userRole,
                   selectedTerritoryId,
                   selectedBlockId, notification, pollingEnabled>>

Login(c) == \E emailInput \in RawEmails : handleLogin(c, emailInput)

PatSubmit(c) == MainScreen(c) /\ handlePatSubmit(c)

Sync(c, seq) == MainScreen(c) /\ (seq => Quiescent(c)) /\ ManualSync(c)

Polling(c) == MainScreen(c) /\ TogglePolling(c)

Focus(c, seq) == (seq => Quiescent(c)) /\ handleFocus(c)

PickTerritory(c) ==
    /\ MainScreen(c)
    /\ \E territoryId \in DOMAIN Doc(c).territories : SelectTerritory(c, territoryId)

PickBlock(c) ==
    /\ MainScreen(c)
    /\ SelectedTerritoryOk(c)
    /\ \E blockId \in DOMAIN Doc(c).territories[selectedTerritoryId[c]].blocks :
          SelectBlock(c, blockId)

(***************************************************************************)
(* Spec: one client, every handler of the page, a sequential schedule and  *)
(* a transport that does not fail.                                         *)
(***************************************************************************)
Writer == "c1"

Next ==
    \/ CycleHouse(Writer, TRUE, TRUE)
    \/ EditHouse(Writer, TRUE, TRUE)
    \/ Sequence(Writer, TRUE, TRUE)
    \/ SaveTerritory(Writer, TRUE, TRUE)
    \/ RemoveTerritory(Writer, TRUE, TRUE)
    \/ SaveBlock(Writer, TRUE, TRUE)
    \/ RemoveBlock(Writer, TRUE, TRUE)
    \/ SaveUsers(Writer, TRUE, TRUE)
    \/ Sync(Writer, TRUE)
    \/ \E i \in Slots : CommitShaRespond(Writer, i)
    \/ \E i \in Slots : CommitPut(Writer, i)
    \/ \E i \in Slots : FetchRespond(Writer, i)
    \/ \E i \in Slots : FetchDeliver(Writer, i)
    \/ Login(Writer)
    \/ logout(Writer)
    \/ OpenPatModal(Writer)
    \/ PatSubmit(Writer)
    \/ PickTerritory(Writer)
    \/ PickBlock(Writer)

Spec == Init /\ [][Next]_vars

(***************************************************************************)
(* SpecDirect: the same client, its handlers invoked whatever the page     *)
(* shows (the handlers are plain functions of the component; the page only *)
(* decides which buttons are rendered).                                    *)
(***************************************************************************)
NextDirect ==
    \/ CycleHouse(Writer, FALSE, TRUE)
    \/ EditHouse(Writer, FALSE, TRUE)
    \/ Sequence(Writer, FALSE, TRUE)
    \/ SaveTerritory(Writer, FALSE, TRUE)
    \/ RemoveTerritory(Writer, FALSE, TRUE)
    \/ SaveBlock(Writer, FALSE, TRUE)
    \/ RemoveBlock(Writer, FALSE, TRUE)
    \/ SaveUsers(Writer, FALSE, TRUE)
    \/ \E i \in Slots : CommitShaRespond(Writer, i)
    \/ \E i \in Slots : CommitPut(Writer, i)
    \/ \E i \in Slots : FetchRespond(Writer, i)
    \/ \E i \in Slots : FetchDeliver(Writer, i)
    \/ Login(Writer)
    \/ logout(Writer)
    \/ PickTerritory(Writer)
    \/ PickBlock(Writer)

SpecDirect == Init /\ [][NextDirect]_vars

(***************************************************************************)
(* SpecAsync: the same client acting while its calls are in flight, every  *)
(* trigger of a fetch, and a transport that may fail. The house handlers   *)
(* stand for the mutations.                                                *)
(***************************************************************************)
NextAsync ==
    \/ CycleHouse(Writer, TRUE, FALSE)
    \/ EditHouse(Writer, TRUE, FALSE)
    \/ Sequence(Writer, TRUE, FALSE)
    \/ Sync(Writer, FALSE)
    \/ handleFocus(Writer)
    \/ Retry(Writer)
    \/ Tick(Writer)
    \/ Polling(Writer)
    \/ \E i \in Slots : CommitShaRespond(Writer, i)
    \/ \E i \in Slots : CommitShaFail(Writer, i)
    \/ \E i \in Slots : CommitPut(Writer, i)
    \/ \E i \in Slots : CommitPutFail(Writer, i)
    \/ \E i \in Slots : FetchRespond(Writer, i)
    \/ \E i \in Slots : FetchFail(Writer, i)
    \/ \E i \in Slots : FetchDeliver(Writer, i)
    \/ \E i \in Slots : PollRespond(Writer, i)
    \/ \E i \in Slots : PollFail(Writer, i)
    \/ Login(Writer)

SpecAsync == Init /\ [][NextAsync]_vars

(***************************************************************************)
(* SpecReliable: the single writer of SpecAsync with a transport that      *)
(* never fails.                                                            *)
(***************************************************************************)
NextReliable ==
    \/ CycleHouse(Writer, TRUE, FALSE)
    \/ EditHouse(Writer, TRUE, FALSE)
    \/ Sequence(Writer, TRUE, FALSE)
    \/ Sync(Writer, FALSE)
    \/ handleFocus(Writer)
    \/ Tick(Writer)
    \/ Polling(Writer)
    \/ \E i \in Slots : CommitShaRespond(Writer, i)
    \/ \E i \in Slots : CommitPut(Writer, i)
    \/ \E i \in Slots : FetchRespond(Writer, i)
    \/ \E i \in Slots : FetchDeliver(Writer, i)
    \/ \E i \in Slots : PollRespond(Writer, i)
    \/ Login(Writer)

SpecReliable == Init /\ [][NextReliable]_vars

(***************************************************************************)
(* SpecTwo: two clients on the same remote file, each acting only when     *)
(* none of its own calls is in flight, over a transport that does not      *)
(* fail. The clients' requests interleave freely at the store.             *)
(***************************************************************************)
NextTwo ==
    \E c \in Clients :
        \/ CycleHouse(c, TRUE, TRUE)
        \/ EditHouse(c, TRUE, TRUE)
        \/ Focus(c, TRUE)
        \/ \E i \in Slots : CommitShaRespond(c, i)
        \/ \E i \in Slots : CommitPut(c, i)
        \/ \E i \in Slots : FetchRespond(c, i)
        \/ \E i \in Slots : FetchDeliver(c, i)
        \/ Login(c)

SpecTwo == Init /\ [][NextTwo]_vars

(***************************************************************************)
(* SpecLive: two clients with polling enabled over a transport that does   *)
(* not fail. The interval timer of each client keeps firing (setInterval), *)
(* and every request sent is answered and every answer delivered; the      *)
(* users log in and cycle houses when they please.                         *)
(***************************************************************************)
NextLive ==
    \E c \in Clients :
        \/ CycleHouse(c, TRUE, TRUE)
        \/ Interval(c, FALSE)
        \/ \E i \in Slots : PollRespond(c, i)
        \/ \E i \in Slots : CommitShaRespond(c, i)
        \/ \E i \in Slots : CommitPut(c, i)
        \/ \E i \in Slots : FetchRespond(c, i)
        \/ \E i \in Slots : FetchDeliver(c, i)
        \/ Login(c)

Scheduled(c) ==
    /\ WF_vars(Interval(c, FALSE))
    /\ WF_vars(\E i \in Slots : PollRespond(c, i))
    /\ WF_vars(\E i \in Slots : CommitShaRespond(c, i))
    /\ WF_vars(\E i \in Slots : CommitPut(c, i))
    /\ WF_vars(\E i \in Slots : FetchRespond(c, i))
    /\ WF_vars(\E i \in Slots : FetchDeliver(c, i))

SpecLive == Init /\ [][NextLive]_vars /\ \A c \in Clients : Scheduled(c)

(***************************************************************************)
(* SpecDecode: the single writer on a file that somebody else can also     *)
(* edit in the repository, leaving a text that is not a document.          *)
(***************************************************************************)
\* the file is replaced in the repository, outside the application
ExternalEdit(text) ==
    /\ IsDocument(remoteFile)
    /\ remoteFile' = text
    /\ UNCHANGED <<appState, remoteSha, patValue, registry, houseEditContext, activeEmail, userRole,
                   selectedTerritoryId, selectedBlockId, showPatModal, notification,
                   pollingEnabled, calls, mutations, triggers, history, basis,
                   overlap, applied>>

NextDecode ==
    \/ \E text \in {Malformed, Blank} : ExternalEdit(text)
    \/ CycleHouse(Writer, TRUE, FALSE)
    \/ Sync(Writer, FALSE)
    \/ handleFocus(Writer)
    \/ Retry(Writer)
    \/ Tick(Writer)
    \/ \E i \in Slots : CommitShaRespond(Writer, i)
    \/ \E i \in Slots : CommitPut(Writer, i)
    \/ \E i \in Slots : FetchRespond(Writer, i)
    \/ \E i \in Slots : FetchDeliver(Writer, i)
    \/ \E i \in Slots : PollRespond(Writer, i)
    \/ Login(Writer)

SpecDecode == Init /\ [][NextDecode]_vars

(***************************************************************************)
(* SpecRecover: the single writer on a transport that can fail, with an    *)
(* interval timer that keeps firing and requests that all end.             *)
(***************************************************************************)
NextRecover ==
    \/ CycleHouse(Writer, TRUE, FALSE)
    \/ Sync(Writer, FALSE)
    \/ handleFocus(Writer)
    \/ Retry(Writer)
    \/ Interval(Writer, FALSE)
    \/ \E i \in Slots : CommitShaRespond(Writer, i)
    \/ \E i \in Slots : CommitShaFail(Writer, i)
    \/ \E i \in Slots : CommitPut(Writer, i)
    \/ \E i \in Slots : CommitPutFail(Writer, i)
    \/ \E i \in Slots : FetchRespond(Writer, i)
    \/ \E i \in Slots : FetchFail(Writer, i)
    \/ \E i \in Slots : FetchDeliver(Writer, i)
    \/ \E i \in Slots : PollRespond(Writer, i)
    \/ \E i \in Slots : PollFail(Writer, i)
    \/ Login(Writer)

\* setInterval keeps calling back; every request sent is answered or fails
Ticking ==
    /\ WF_vars(Interval(Writer, FALSE))
    /\ WF_vars(\E i \in Slots : PollRespond(Writer, i) \/ PollFail(Writer, i))
    /\ WF_vars(\E i \in Slots : CommitShaRespond(Writer, i) \/ CommitShaFail(Writer, i))
    /\ WF_vars(\E i \in Slots : CommitPut(Writer, i) \/ CommitPutFail(Writer, i))
    /\ WF_vars(\E i \in Slots : FetchRespond(Writer, i) \/ FetchFail(Writer, i))
    /\ WF_vars(\E i \in Slots : FetchDeliver(Writer, i))

SpecRecover == Init /\ [][NextRecover]_vars /\ Ticking

(***************************************************************************)
(* SpecBlocks: the single writer on a file whose block holds any of the    *)
(* sample house collections, working on houses and blocks via the page.    *)
(***************************************************************************)
InitBlocks ==
    /\ Constructed
    /\ remoteFile \in {yamlDump(WithHouses(houses)) : houses \in SampleHouses}
    /\ NoRegistry

Resequence(c) ==
    /\ May(c, TRUE, TRUE, "chalk")
    /\ SelectedBlockOk(c)
    /\ \E max \in 1..MaxSequence : applyChalkSequencing(c, selectedBlockId[c], max)

NextBlocks ==
    \/ CycleHouse(Writer, TRUE, TRUE)
    \/ EditHouse(Writer, TRUE, TRUE)
    \/ Resequence(Writer)
    \/ SaveBlock(Writer, TRUE, TRUE)
    \/ \E i \in Slots : CommitShaRespond(Writer, i)
    \/ \E i \in Slots : CommitPut(Writer, i)
    \/ \E i \in Slots : FetchRespond(Writer, i)
    \/ \E i \in Slots : FetchDeliver(Writer, i)
    \/ Login(Writer)

SpecBlocks == InitBlocks /\ [][NextBlocks]_vars

(***************************************************************************)
(* SpecUsers: the single writer logging in and out and replacing the role  *)
(* mapping through the user table.                                         *)
(***************************************************************************)
NextUsers ==
    \/ SaveUsers(Writer, TRUE, TRUE)
    \/ Login(Writer)
    \/ logout(Writer)
    \/ \E i \in Slots : CommitShaRespond(Writer, i)
    \/ \E i \in Slots : CommitPut(Writer, i)
    \/ \E i \in Slots : FetchRespond(Writer, i)
    \/ \E i \in Slots : FetchDeliver(Writer, i)

SpecUsers == Init /\ [][NextUsers]_vars

(***************************************************************************)
(* SpecTerritories: the single writer creating, renaming, selecting and    *)
(* deleting territories through the page.                                  *)
(***************************************************************************)
NextTerritories ==
    \/ SaveTerritory(Writer, TRUE, TRUE)
    \/ RemoveTerritory(Writer, TRUE, TRUE)
    \/ PickTerritory(Writer)
    \/ \E i \in Slots : CommitShaRespond(Writer, i)
    \/ \E i \in Slots : CommitPut(Writer, i)
    \/ \E i \in Slots : FetchRespond(Writer, i)
    \/ \E i \in Slots : FetchDeliver(Writer, i)
    \/ Login(Writer)

SpecTerritories == Init /\ [][NextTerritories]_vars

(***************************************************************************)
(* SpecRegistry: a page whose storage holds any of the sample items; the   *)
(* registry is constructed over it (again at every page load) and          *)
(* participants are added through it.                                      *)
(***************************************************************************)
\* the lists the sample items hold: the list of the registry's tests, a
\* participant stored without objectives, and one stored with objectives the
\* table does not allow
StoredLists ==
    { << [id |-> "ativo-1", name |-> "Ativo 1", classification |-> "ANCIOS",
          status |-> "ACTIVE", objectives |-> <<"PRELETOR">>],
         [id |-> "ausente-1", name |-> "Ausente", classification |-> "ANCIOS",
          status |-> "ABSENT", objectives |-> <<"PRELETOR">>],
         [id |-> "substituto-1", name |-> "Substituto", classification |-> "SERVOS",
          status |-> "SUBSTITUTE", objectives |-> <<"PRELETOR">>] >>,
      << [id |-> "ativo-1", name |-> "Ativo 1", classification |-> "GERAIS",
          status |-> "ACTIVE"] >>,
      << [id |-> "p-anci-1", name |-> "Carlos Alberto", classification |-> "ANCIOS",
          status |-> "ACTIVE", objectives |-> <<"LEITOR", "OUTRO", "LEITOR">>] >> }

StoredItems ==
    {NoItem, EmptyText, Unparsable, jsonStringify(JsNull), jsonStringify(Array(<<>>))}
    \cup {jsonStringify(Array(list)) : list \in StoredLists}

\* the payloads handed to addParticipant: the one of the registry's tests, one
\* naming a stored id, one with repeated and unlisted objectives, one without
\* objectives, and four the checks of normaliseParticipant reject
Payloads ==
    { [name |-> " Bia ", classification |-> "GERAIS", status |-> "ACTIVE",
       objectives |-> <<"VISITANTE">>, notes |-> "Caso de teste"],
      [id |-> "p-anci-1", name |-> "bia", classification |-> "SERVOS",
       objectives |-> <<"LEITOR", "OUTRO", "LEITOR", "PRELETOR">>],
      [id |-> "ativo-1", name |-> "Ana Souza", classification |-> "ANCIOS",
       status |-> "SUBSTITUTE"],
      [id |-> "novo-1", name |-> "Bia", classification |-> "ANCIOS",
       status |-> "ABSENT", objectives |-> <<>>],
      [name |-> "", classification |-> "GERAIS"],
      [classification |-> "GERAIS", status |-> "ACTIVE"],
      [name |-> "Bia", classification |-> "OUTRA"],
      [name |-> "Bia", classification |-> "GERAIS", status |-> "OUTRO"] }

\* the ids generateId gives
GeneratedIds == {"uuid-1", "uuid-2"}

InitRegistry ==
    /\ Constructed
    /\ remoteFile = yamlDump(InitialDoc)
    /\ participants = JsNull
    /\ storage \in StoredItems
    /\ returned = NoCall

\* new ParticipantRegistry({storageProvider}): this.participants = []; this.load()
NewRegistry ==
    /\ participants' = loaded(storage)
    /\ storage' = afterLoad(storage)
    /\ returned' = Done("constructor")
    /\ UNCHANGED app

\* the list addParticipant leaves in the registry
added(held, participant) ==
    sortByPriority(
        Append(SelectSeq(held, LAMBDA item : item.id # participant.id), participant),
        "classification",
        classificationPriority)

addParticipant(rawParticipant, generated, now) ==
    /\ returned # NoCall
    /\ IF normaliseThrows(rawParticipant) \/ ~IsArray(participants)
         THEN /\ returned' = Threw("addParticipant")
              /\ UNCHANGED <<participants, storage>>
         ELSE LET participant == normaliseParticipant(rawParticipant, generated, now)
              IN  /\ participants' = Array(added(participants[1], participant))
                  /\ storage' = write(participants')
                  /\ returned' = Gave("addParticipant", participant)
    /\ UNCHANGED app

AddParticipant ==
    \E rawParticipant \in Payloads, generated \in GeneratedIds, now \in Times :
        addParticipant(rawParticipant, generated, now)

NextRegistry ==
    \/ NewRegistry
    \/ AddParticipant

SpecRegistry == InitRegistry /\ [][NextRegistry]_vars

(***************************************************************************)
(* SpecSchedule: the registry over the same sample items, its statuses     *)
(* updated and adjustments of the schedule asked of it.                    *)
(***************************************************************************)
\* largest number of participants an adjustment is asked to require
MaxRequired == 2

\* Object.values(OBJECTIVES), used for objectivePriority.includes(objective)
objectivePriority == <<"PRELETOR", "AUXILIAR", "AUDIO_VIDEO", "VISITANTE", "LEITOR">>

Includes(items, item) == \E i \in DOMAIN items : items[i] = item

\* {...existing, ...updates}
KeepsExisting(existing, updates) == existing

Merged(existing, updates) ==
    [key \in DOMAIN existing \cup DOMAIN updates |->
        IF key \in DOMAIN updates THEN updates[key] ELSE existing[key]]

\* findIndex: the first index holding id, 0 when there is none (-1)
findIndex(held, id) ==
    IF \E i \in DOMAIN held : held[i].id = id
      THEN CHOOSE i \in DOMAIN held :
              held[i].id = id /\ \A j \in 1..(i - 1) : held[j].id # id
      ELSE 0

\* the payload updateParticipant normalises: id and createdAt are those of the
\* stored participant (createdAt stays absent when it has none)
updatePayload(existing, updates, id) ==
    LET merged == Merged(existing, updates)
    IN  [key \in (DOMAIN merged \cup {"id"}) \ ({"createdAt"} \ DOMAIN existing) |->
            IF key = "id" THEN id
            ELSE IF key = "createdAt" THEN existing.createdAt
            ELSE merged[key]]

\* this.participants.splice(index, 1, merged)
splice(held, index, merged) == [held EXCEPT ![index] = merged]

updateParticipant(id, updates, now) ==
    IF ~IsArray(participants) \/ findIndex(all(participants), id) = 0
      THEN /\ returned' = Threw("updateStatus")
           /\ UNCHANGED <<participants, storage>>
      ELSE LET index == findIndex(all(participants), id)
               raw == updatePayload(all(participants)[index], updates, id)
           IN  IF normaliseThrows(raw)
                 THEN /\ returned' = Threw("updateStatus")
                      /\ UNCHANGED <<participants, storage>>
                 ELSE LET merged == normaliseParticipant(raw, id, now)
                      IN  /\ participants' = Array(sortByPriority(
                                 splice(all(participants), index, merged),
                                 "classification", classificationPriority))
                          /\ storage' = write(participants')
                          /\ returned' = Gave("updateStatus", merged)

updateStatus(id, status, now) ==
    /\ returned # NoCall
    /\ IF status \notin PARTICIPATION_STATUS
         THEN /\ returned' = Threw("updateStatus")
              /\ UNCHANGED <<participants, storage>>
         ELSE updateParticipant(id, [status |-> status], now)
    /\ UNCHANGED app

getParticipantsByObjective(held, objective) ==
    sortByPriority(SelectSeq(held, LAMBDA participant : Includes(participant.objectives, objective)),
                   "classification", classificationPriority)

\* new Date() and new Date(date) written as toISOString().split("T")[0]
Today == "2025-11-04"
eventDate(date) == IF date = <<>> THEN Today ELSE date[1]

CountsActive(participant) == participant.status = "ACTIVE"

scheduleAdjustments(held, objective, date, required, specialDemand) ==
    LET assigned == getParticipantsByObjective(held, objective)
        active == SelectSeq(assigned, CountsActive)
        absent == SelectSeq(assigned, LAMBDA participant : participant.status = "ABSENT")
        substitutes == SelectSeq(held, LAMBDA participant :
                          /\ participant.status = "SUBSTITUTE"
                          /\ Includes(participant.objectives, objective))
        shortage == IF required - Len(active) > 0 THEN required - Len(active) ELSE 0
        taken == IF shortage < Len(substitutes) THEN shortage ELSE Len(substitutes)
    IN  [objective |-> objective,
         date |-> eventDate(date),
         required |-> required,
         available |-> Len(active),
         shortage |-> shortage,
         absent |-> [i \in DOMAIN absent |-> [id |-> absent[i].id, name |-> absent[i].name]],
         suggestions |->
             IF shortage # 0
               THEN [i \in 1..taken |->
                       [id |-> substitutes[i].id, name |-> substitutes[i].name,
                        classification |-> substitutes[i].classification]]
               ELSE <<>>,
         specialDemand |-> specialDemand,
         message |-> IF shortage = 0 THEN "Equipe suficiente" ELSE "Faltam participantes"]

generateScheduleAdjustments(objective, date, required, specialDemand) ==
    /\ returned # NoCall
    /\ returned' =
          IF ~Includes(objectivePriority, objective) \/ ~IsArray(participants)
            THEN Threw("generateScheduleAdjustments")
            ELSE Gave("generateScheduleAdjustments",
                      scheduleAdjustments(all(participants), objective, date, required,
                                          specialDemand))
    /\ UNCHANGED <<participants, storage>>
    /\ UNCHANGED app

\* the ids and statuses handed to updateStatus
UpdatedIds == {"p-anci-1", "p-anci-2", "p-geral-1", "ativo-1", "ausente-1", "desconhecido"}
Statuses == PARTICIPATION_STATUS \cup {"OUTRO"}

UpdateStatus ==
    \E id \in UpdatedIds, status \in Statuses, now \in Times : updateStatus(id, status, now)

\* the requests handed to generateScheduleAdjustments
Objectives == {"PRELETOR", "VISITANTE", "OUTRO"}
Dates == {<<>>, <<"2025-10-08">>}
Demands == {"", "Reuniao de assembleia"}

GenerateScheduleAdjustments ==
    \E objective \in Objectives, date \in Dates, required \in 0..MaxRequired,
       specialDemand \in Demands :
        generateScheduleAdjustments(objective, date, required, specialDemand)

NextSchedule ==
    \/ NewRegistry
    \/ UpdateStatus
    \/ GenerateScheduleAdjustments

SpecSchedule == InitRegistry /\ [][NextSchedule]_vars

\* SpecStatus: the registry constructed and its statuses updated
NextStatuses ==
    \/ NewRegistry
    \/ UpdateStatus

SpecStatus == InitRegistry /\ [][NextStatuses]_vars

(***************************************************************************)
(* SpecEdit: the single writer over a file whose territory holds two       *)
(* blocks, each with a house "1", editing houses through the edit form and *)
(* cycling them, while the window can gain focus at any time.              *)
(***************************************************************************)
\* the house of the other block
OtherHouse == House(2, "1", "7", "n", Earlier)

TwoBlocks ==
    [InitialDoc EXCEPT !.territories["01"].blocks =
        Put(@, "2", recalcBlockSummary([summary |-> EmptyObj, imageUrl |-> "img",
                                        houses |-> "1" :> OtherHouse]))]

InitEdit == Constructed /\ remoteFile = yamlDump(TwoBlocks) /\ NoRegistry

\* the modals cover the page: its controls are reached while none is open
Uncovered(c) == houseEditContext[c] = <<>>

\* "Editar dados" on the card of a house of the selected block
openHouseEdit(c, houseId) ==
    /\ houseEditContext' = [houseEditContext EXCEPT ![c] =
           <<[territoryId |-> selectedTerritoryId[c], blockId |-> selectedBlockId[c],
              houseId |-> houseId]>>]
    /\ UNCHANGED <<View, patValue, registry, activeEmail, userRole, selectedTerritoryId,
                   selectedBlockId, showPatModal, notification, pollingEnabled>>

\* "Fechar" of the modal
closeHouseEdit(c) ==
    /\ houseEditContext' = [houseEditContext EXCEPT ![c] = <<>>]
    /\ UNCHANGED <<View, patValue, registry, activeEmail, userRole, selectedTerritoryId,
                   selectedBlockId, showPatModal, notification, pollingEnabled>>

\* onSubmit of the house edit form: updateHouseData with the house key of the
\* context, then the context is cleared
submitHouseEdit(c, officialNumber, notes) ==
    /\ houseEditContext[c] # <<>>
    /\ houseEditContext' = [houseEditContext EXCEPT ![c] = <<>>]
    /\ IF selectedTerritoryId[c] # Null /\ selectedBlockId[c] # Null /\ Loaded(c)
         THEN updateHouseData(c, houseEditContext[c][1].houseId, officialNumber, notes)
         ELSE UNCHANGED <<View, patValue, registry, activeEmail, userRole,
                          selectedTerritoryId, selectedBlockId, showPatModal,
                          notification, pollingEnabled>>

OpenHouseEdit(c) ==
    /\ Shown(c, "house")
    /\ Uncovered(c)
    /\ SelectedBlockOk(c)
    /\ \E houseId \in DOMAIN SelectedBlock(c).houses : openHouseEdit(c, houseId)

CloseHouseEdit(c) == MainScreen(c) /\ houseEditContext[c] # <<>> /\ closeHouseEdit(c)

SubmitHouseEdit(c) ==
    /\ MainScreen(c)
    /\ \E officialNumber \in OfficialNumbers, notes \in Notes :
          submitHouseEdit(c, officialNumber, notes)

NextEdit ==
    \/ Uncovered(Writer) /\ PickBlock(Writer)
    \/ Uncovered(Writer) /\ CycleHouse(Writer, TRUE, FALSE)
    \/ OpenHouseEdit(Writer)
    \/ CloseHouseEdit(Writer)
    \/ SubmitHouseEdit(Writer)
    \/ Focus(Writer, FALSE)
    \/ Login(Writer)
    \/ \E i \in Slots : CommitShaRespond(Writer, i)
    \/ \E i \in Slots : CommitPut(Writer, i)
    \/ \E i \in Slots : FetchRespond(Writer, i)
    \/ \E i \in Slots : FetchDeliver(Writer, i)

SpecEdit == InitEdit /\ [][NextEdit]_vars

(***************************************************************************)
(* Properties                                                              *)
(***************************************************************************)
Blocks(doc) ==
    UNION {{doc.territories[t].blocks[b] : b \in DOMAIN doc.territories[t].blocks} :
            t \in DOMAIN doc.territories}

HousesWith(block, status) ==
    Cardinality({h \in DOMAIN block.houses : block.houses[h].status = status})

Counted(block) ==
    /\ block.summary.total = Cardinality(DOMAIN block.houses)
    /\ block.summary.verde = HousesWith(block, 1)
    /\ block.summary.amarelo = HousesWith(block, 2)
    /\ block.summary.laranja = HousesWith(block, 3)
    /\ block.summary.vermelho = HousesWith(block, 4)

\* C1: in every local document, after any mutation, the summary of every block
\* counts its houses: total is the number of houses and verde, amarelo, laranja
\* and vermelho are the numbers of houses with status 1, 2, 3 and 4.
SummaryCounted ==
    \A c \in Clients : Loaded(c) => \A block \in Blocks(Doc(c)) : Counted(block)

\* two mutations have run, and a block holds two houses of which one is amarelo
SummaryCountedWitness ==
    /\ mutations = 2
    /\ Loaded(Writer)
    /\ \E block \in Blocks(Doc(Writer)) :
          /\ Cardinality(DOMAIN block.houses) = 2
          /\ HousesWith(block, 2) = 1
          /\ block.summary.amarelo = 1

\* the session of c has a role, and it ranks below the one the control requires
Below(c, control) ==
    /\ userRole[c] # Null
    /\ ~hasCapability(userRole[c], RequiredRole[control])

\* a handler behind the control is invoked, by the page or not
Invoked(c, control) ==
    CASE control = "house" -> CycleHouse(c, FALSE, TRUE) \/ EditHouse(c, FALSE, TRUE)
      [] control = "chalk" -> Sequence(c, FALSE, TRUE)
      [] control = "territory" ->
            SaveTerritory(c, FALSE, TRUE) \/ RemoveTerritory(c, FALSE, TRUE)
      [] control = "block" -> SaveBlock(c, FALSE, TRUE) \/ RemoveBlock(c, FALSE, TRUE)
      [] control = "users" -> SaveUsers(c, FALSE, TRUE)

MutatingControls == {"house", "chalk", "territory", "block", "users"}

\* C2: the pipeline is the authorization gate: when the role of the session ranks
\* below the role a mutating operation requires, invoking the operation changes
\* neither the local nor the remote document and starts no commit, whatever the
\* page shows.
PipelineIsGate ==
    [][\A control \in MutatingControls :
          (Below(Writer, control) /\ Invoked(Writer, control)) =>
              UNCHANGED <<appState, remoteFile, calls>>]_vars

\* a mutating operation is invoked by the client (the pipeline has run)
MutationStep == mutations' = mutations + 1

\* C3: with no PAT stored, invoking a mutation is blocked: the local document is
\* unchanged, no request is sent to the store, an error is surfaced and the PAT
\* prompt is opened.
NoPatBlocksMutation ==
    [][(patValue[Writer] = NoPat /\ MutationStep) =>
          /\ appState' = appState
          /\ calls' = calls
          /\ remoteFile' = remoteFile
          /\ notification'[Writer].type = "error"
          /\ showPatModal'[Writer]]_vars

\* the commit call the mutation of this step has started
NewCommit(c, j) ==
    /\ calls[c][j].kind = "idle"
    /\ calls'[c][j].kind = "commit"
    /\ calls'[c][j].seq = mutations'

\* C4: a mutation applied with a document loaded publishes the mutated clone as
\* the local view in the same step, before any request of its commit has
\* completed: the commit is then still waiting for its first answer and the
\* remote document is as it was.
OptimisticPublish ==
    [][MutationStep =>
          /\ remoteFile' = remoteFile
          /\ history' = history
          /\ patValue[Writer] # NoPat =>
                \E j \in Slots :
                    /\ NewCommit(Writer, j)
                    /\ calls'[Writer][j].phase = "sha"
                    /\ calls'[Writer][j].state =
                          <<Run(calls'[Writer][j].mutator[1], Doc(Writer))>>
                    /\ appState'[Writer] = calls'[Writer][j].state]_vars

\* the local view holds a draft the remote document does not, while the commit
\* of that draft has not had its first answer
OptimisticPublishWitness ==
    \E i \in Slots :
        /\ calls[Writer][i].kind = "commit"
        /\ calls[Writer][i].phase = "sha"
        /\ appState[Writer] = calls[Writer][i].state
        /\ yamlDump(Doc(Writer)) # remoteFile

\* the commit of slot i ends in this step without having written
CommitFails(c, i) ==
    /\ calls[c][i].kind = "commit"
    /\ calls'[c][i].kind # "commit"
    /\ history' = history

CommitThenRefetch ==
    [][\A i \in Slots :
          /\ (calls[Writer][i].kind = "commit" /\ calls'[Writer][i] # calls[Writer][i]
                /\ history' # history) =>
                /\ calls'[Writer][i].kind = "fetch"
                /\ calls'[Writer][i].phase = "req"
                /\ calls'[Writer][i].reason = "post-commit"
          /\ (calls[Writer][i].kind = "fetch" /\ calls[Writer][i].reason = "post-commit"
                /\ calls[Writer][i].phase = "req" /\ calls'[Writer][i].phase = "resp") =>
                /\ decodeBase64(calls'[Writer][i].content[1]) = remoteFile
                /\ calls'[Writer][i].sha = ShaOf(remoteFile)
          /\ (calls[Writer][i].kind = "fetch" /\ calls[Writer][i].reason = "post-commit"
                /\ calls[Writer][i].phase = "resp" /\ calls'[Writer][i].kind = "idle") =>
                /\ appState'[Writer] =
                      <<yamlLoad(decodeBase64(calls[Writer][i].content[1]))>>
                /\ remoteSha'[Writer] = calls[Writer][i].sha]_vars

\* a commit has written and its refetch has been delivered: the local document
\* and tag are those of the remote file
CommitThenRefetchWitness ==
    /\ notification[Writer].message = "Estado sincronizado apos commit"
    /\ history # <<>>
    /\ Loaded(Writer)
    /\ yamlDump(Doc(Writer)) = remoteFile
    /\ remoteSha[Writer] = ShaOf(remoteFile)

\* the remote file of version k
VersionFile(k) == IF k = 0 THEN yamlDump(InitialDoc) ELSE yamlDump(history[k].state)

\* C7: every commit sends with its write the tag its own read returned (the tag
\* of the remote version current when that read was answered), never the tag
\* kept from the last fetch; this holds of each of several commits in flight.
OwnTagRead ==
    \A c \in Clients : \A i \in Slots :
        (calls[c][i].kind = "commit" /\ calls[c][i].phase = "put") =>
            calls[c][i].sha = ShaOf(VersionFile(calls[c][i].read))

\* a commit is about to write with a tag that is not the one kept from the last
\* fetch
OwnTagReadWitness ==
    \E i \in Slots :
        /\ calls[Writer][i].kind = "commit"
        /\ calls[Writer][i].phase = "put"
        /\ remoteSha[Writer] # NoSha
        /\ calls[Writer][i].sha # remoteSha[Writer]

\* m2 is invoked while the commit of the mutation before it, in slot i, is
\* unresolved
SecondMutation(c, i) ==
    /\ MutationStep
    /\ calls[c][i].kind = "commit"
    /\ calls[c][i].seq = mutations

\* the local view after the step is m2 run on the draft of the commit in slot i
ReflectsBoth(c, i) ==
    \E j \in Slots :
        /\ NewCommit(c, j)
        /\ appState'[c] = <<Run(calls'[c][j].mutator[1], calls[c][i].state[1])>>

\* C8 as stated: when m2 is invoked before the commit of m1 has resolved, the
\* local view after m2 reflects m1 and m2 in that order.
QuickSuccession ==
    [][\A i \in Slots : SecondMutation(Writer, i) => ReflectsBoth(Writer, i)]_vars

\* C8, amended: when m2 is invoked before the commit of m1 has resolved and the
\* local view is still the draft of m1 (no fetch has replaced it since), the
\* local view after m2 reflects m1 and m2 in that order.
QuickSuccessionOnLatestView ==
    [][\A i \in Slots :
          (SecondMutation(Writer, i) /\ appState[Writer] = calls[Writer][i].state) =>
              ReflectsBoth(Writer, i)]_vars

\* two commits are unresolved and the local view is the second draft, which is
\* the second mutator run on the first draft and not on the document fetched
QuickSuccessionWitness ==
    \E i, j \in Slots :
        /\ calls[Writer][i].kind = "commit"
        /\ calls[Writer][j].kind = "commit"
        /\ calls[Writer][j].seq = calls[Writer][i].seq + 1
        /\ appState[Writer] = calls[Writer][j].state
        /\ Doc(Writer) = Run(calls[Writer][j].mutator[1], calls[Writer][i].state[1])
        /\ Doc(Writer) # Run(calls[Writer][j].mutator[1], InitialDoc)
        /\ Doc(Writer) # calls[Writer][i].state[1]

\* the document that holds every mutation of c, in the order applied
RECURSIVE Fold(_, _)
Fold(ms, doc) == IF ms = <<>> THEN doc ELSE Fold(Tail(ms), Run(Head(ms), doc))

Expected(c) == Fold(applied[c], InitialDoc)

\* no commit of c is rejected, and once nothing of c is in flight the remote and
\* the local document hold every mutation c has applied
Protected(c) ==
    /\ notification[c].message # "Erro ao confirmar commit (409)"
    /\ (Quiescent(c) /\ Loaded(c)) =>
          /\ remoteFile = yamlDump(Expected(c))
          /\ Doc(c) = Expected(c)

\* C9 as stated: with one writer (holding a PAT) and a transport that never
\* fails, no commit is rejected by the tag check, and when all commits and
\* refetches have completed the remote and the local document contain every
\* mutation applied, also when mutations are made while a commit is in flight.
SingleWriterProtected == patValue[Writer] # NoPat => Protected(Writer)

\* C9, amended: the same, for a writer that starts each mutation and each fetch
\* only when none of its earlier requests is in flight.
SequentialWriterProtected ==
    (patValue[Writer] # NoPat /\ ~overlap[Writer]) => Protected(Writer)

\* the writer never overlapped two requests, both its mutations are committed
\* and refetched, and the remote and local documents hold them
SequentialWriterWitness ==
    /\ patValue[Writer] # NoPat
    /\ ~overlap[Writer]
    /\ mutations = 2
    /\ Len(history) = 2
    /\ Quiescent(Writer)
    /\ Loaded(Writer)
    /\ Doc(Writer) = Expected(Writer)
    /\ remoteFile = yamlDump(Expected(Writer))
    /\ Expected(Writer) # InitialDoc

\* the commit in slot i of c is answered by the store in this step, and the
\* remote file has not changed since the commit read its tag
WritesAfterOwnRead(c, i) ==
    /\ calls[c][i].kind = "commit"
    /\ calls[c][i].phase = "put"
    /\ calls'[c][i].kind # "commit"
    /\ calls[c][i].read = RemoteVer

\* C10: the tag check at write time compares the remote file with the tag the
\* commit has just read, not with the version the committed document derives
\* from: a write is accepted whenever the remote file did not change between
\* the commit's own read and its write, however old the base of its document,
\* so a commit can replace a version it has never seen (witness: LostUpdate).
TagCheckIgnoresBase ==
    [][\A c \in Clients : \A i \in Slots :
          WritesAfterOwnRead(c, i) =>
              /\ Len(history') = Len(history) + 1
              /\ history'[Len(history')].base = calls[c][i].ver
              /\ remoteFile' = yamlDump(calls[c][i].state[1])]_vars

VersionDoc(k) == yamlLoad(VersionFile(k))

\* a successful write by one client whose document derives from a version older
\* than the one it replaced, which another client had written: the new remote
\* document is the mutator run on the old base and omits the other's change
LostUpdate ==
    \E k \in 2..Len(history) :
        /\ history[k].base < k - 1
        /\ history[k - 1].by # history[k].by
        /\ history[k].state = Run(history[k].mutator, VersionDoc(history[k].base))
        /\ history[k].state # Run(history[k].mutator, history[k - 1].state)
        /\ remoteFile = yamlDump(history[k].state)

\* the commit in slot i of c is answered by the store in this step, and the
\* remote file is no longer the one whose tag the commit read
WritesAfterChange(c, i) ==
    /\ calls[c][i].kind = "commit"
    /\ calls[c][i].phase = "put"
    /\ calls'[c][i].kind # "commit"
    /\ remoteFile # VersionFile(calls[c][i].read)

\* C11: when the remote document has changed between the tag read of a commit
\* and its write, the write carries a stale tag and is rejected: the remote
\* document stays as the other writer left it, and the client treats the
\* rejection like a transport failure: an error is surfaced, the local view and
\* tag are kept, no refetch is started and the commit is not retried.
StaleWriteRejected ==
    [][\A c \in Clients : \A i \in Slots :
          WritesAfterChange(c, i) =>
              /\ calls[c][i].sha # ShaOf(remoteFile)
              /\ remoteFile' = remoteFile
              /\ history' = history
              /\ notification'[c].type = "error"
              /\ appState' = appState
              /\ remoteSha' = remoteSha
              /\ calls'[c][i] = IdleCall
              /\ \A j \in Slots : calls'[c][j].kind = calls[c][j].kind \/ j = i]_vars

\* a client whose write was rejected: nothing of it is in flight, the remote file
\* is the other client's and the local view still holds the rejected draft
StaleWriteWitness ==
    \E c \in Clients :
        /\ notification[c].message = "Erro ao confirmar commit (409)"
        /\ Quiescent(c)
        /\ Loaded(c)
        /\ history # <<>>
        /\ history[Len(history)].by # c
        /\ remoteFile = yamlDump(history[Len(history)].state)
        /\ yamlDump(Doc(c)) # remoteFile
        /\ Doc(c) = Run(applied[c][Len(applied[c])], InitialDoc)

\* the local document of c is the remote one
InSync(c) == Loaded(c) /\ yamlDump(Doc(c)) = remoteFile

\* C12: clients converge on the canonical document: with a transport that
\* succeeds and interval ticks that keep occurring for every client, once the
\* mutations have stopped and the commits have resolved, every client's local
\* document eventually equals the remote document and stays equal.
Converges == <>[](\A c \in Clients : InSync(c))

\* C13: a fetch whose transport fails reports the failure and leaves the local
\* document and the local version tag exactly as they were before the fetch.
FetchFailureKeepsState ==
    [][\A i \in Slots :
          (/\ calls[Writer][i].kind = "fetch"
           /\ calls[Writer][i].phase = "req"
           /\ calls'[Writer][i].kind = "idle")
          => /\ appState' = appState
             /\ remoteSha' = remoteSha
             /\ notification'[Writer].type = "error"]_vars

\* a client that holds a document and its tag and shows the failure of a fetch
FetchFailureWitness ==
    /\ Loaded(Writer)
    /\ remoteSha[Writer] # NoSha
    /\ notification[Writer] = Note("error", "Falha ao buscar dados (500)")

\* the fetch in slot i of the writer ends on a content that is not a document
UndecodableDelivered(i) ==
    /\ calls[Writer][i].kind = "fetch"
    /\ calls[Writer][i].phase = "resp"
    /\ ~IsDocument(decodeBase64(calls[Writer][i].content[1]))
    /\ calls'[Writer][i].kind = "idle"

\* C14: a fetch whose content does not decode into a document is reported as
\* failed and leaves the local document and the local version tag as they were
\* before the fetch.
DecodeFailureKeepsState ==
    [][\A i \in Slots :
          UndecodableDelivered(i)
          => /\ appState' = appState
             /\ remoteSha' = remoteSha
             /\ notification'[Writer].type = "error"]_vars

\* the fetch in slot i of c delivers a document under a tag other than the one c holds
NewerDelivered(c, i) ==
    /\ calls[c][i].kind = "fetch"
    /\ calls[c][i].phase = "resp"
    /\ IsDocument(decodeBase64(calls[c][i].content[1]))
    /\ calls[c][i].sha # remoteSha[c]
    /\ calls'[c][i] # calls[c][i]

\* C15: last fetch wins: a successful fetch that observes a tag other than the
\* last-known one replaces the whole local document with the fetched one and
\* the last-known tag with the fetched tag, whatever uncommitted mutation the
\* local document held.
LastFetchWins ==
    [][\A c \in Clients : \A i \in Slots :
          NewerDelivered(c, i)
          => /\ appState'[c] = <<yamlLoad(decodeBase64(calls[c][i].content[1]))>>
             /\ remoteSha'[c] = calls[c][i].sha]_vars

\* a client none of whose mutations was committed, at rest after a fetch: it
\* holds the other client's document under its tag, and its own last draft is gone
LastFetchWinsWitness ==
    \E c \in Clients :
        /\ applied[c] # <<>>
        /\ history # <<>>
        /\ \A k \in DOMAIN history : history[k].by # c
        /\ Quiescent(c)
        /\ Loaded(c)
        /\ yamlDump(Doc(c)) = remoteFile
        /\ remoteSha[c] = ShaOf(remoteFile)
        /\ Doc(c) # Run(applied[c][Len(applied[c])], InitialDoc)

\* C16: failures are not terminal: whatever failed before, while polling is
\* enabled and the interval keeps ticking, a client with nothing in flight
\* starts a new request.
FailuresNotTerminal ==
    (Quiescent(Writer) /\ pollingEnabled[Writer]) ~> ~Quiescent(Writer)

\* a step starts a tag check of the interval in slot i of the writer
CheckStarts(i) == calls[Writer][i].kind # "poll" /\ calls'[Writer][i].kind = "poll"

\* a step starts the fetch that follows a tag check in slot i of the writer
PollingFetchStarts(i) ==
    /\ calls[Writer][i].kind # "fetch"
    /\ calls'[Writer][i].kind = "fetch"
    /\ calls'[Writer][i].reason = "polling"

\* C17: the interval is suspendable: while polling is disabled no request and
\* no fetch triggered by the interval starts.
PollingSuspended ==
    [][~pollingEnabled[Writer]
       => \A i \in Slots : ~CheckStarts(i) /\ ~PollingFetchStarts(i)]_vars

\* the roles from the lowest to the highest
RankOrder == <<"Comum", "Capitao", "Admin", "Super Admin">>

Rank(r) == CHOOSE i \in DOMAIN RankOrder : RankOrder[i] = r

\* C18: hasCapability(r, required) is true exactly when r ranks at least as
\* high as required in the strict total order Comum < Capitao < Admin <
\* Super Admin, for all pairs of the four roles and so for the role of
\* whoever is logged in; a higher role has every capability of a lower one.
CapabilityByRank ==
    /\ \A i, j \in DOMAIN RankOrder :
           i < j <=> roleHierarchy[RankOrder[i]] < roleHierarchy[RankOrder[j]]
    /\ \A r, required \in Roles :
           hasCapability(r, required) <=> Rank(r) >= Rank(required)
    /\ \A r, higher, required \in Roles :
           (Rank(higher) >= Rank(r) /\ hasCapability(r, required))
           => hasCapability(higher, required)
    /\ \A c \in Clients :
           userRole[c] # Null
           => \A control \in DOMAIN RequiredRole :
                 Shown(c, control)
                 => Rank(userRole[c]) >= Rank(RequiredRole[control])

\* an Admin on the main screen: offered the territory form and the sequencing
\* of a block, not the user table
CapabilityWitness ==
    /\ userRole[Writer] = "Admin"
    /\ Shown(Writer, "territory")
    /\ Shown(Writer, "chalk")
    /\ ~Shown(Writer, "users")

\* summaries a block can carry before a recalculation: none counted, and one
\* that counts houses the block does not hold
PreviousSummaries ==
    {[total |-> 0, verde |-> 0, amarelo |-> 0, laranja |-> 0, vermelho |-> 0],
     [total |-> 3, verde |-> 1, amarelo |-> 0, laranja |-> 2, vermelho |-> 0]}

Recalculated(block) ==
    /\ recalcBlockSummary(recalcBlockSummary(block)) = recalcBlockSummary(block)
    /\ recalcBlockSummary(block).houses = block.houses
    /\ \A previous \in PreviousSummaries :
           recalcBlockSummary([block EXCEPT !.summary = previous]).summary
           = recalcBlockSummary(block).summary

\* C19: for every block, recalculating twice gives what recalculating once
\* gives, the summary is the same whatever summary the block carried before,
\* and the houses are left as they were.
RecalcIdempotent ==
    \A c \in Clients : Loaded(c) => \A block \in Blocks(Doc(c)) : Recalculated(block)

\* a mutation has recalculated a block: its summary is no longer the one the
\* document was loaded with, and recalculating it again changes nothing
RecalcIdempotentWitness ==
    /\ mutations >= 1
    /\ Loaded(Writer)
    /\ \E block \in Blocks(Doc(Writer)) :
          /\ \A initial \in Blocks(InitialDoc) : block.summary # initial.summary
          /\ recalcBlockSummary(block) = block

CounterSum(block) ==
    block.summary.verde + block.summary.amarelo + block.summary.laranja
    + block.summary.vermelho

\* C20: in every block of a local document reached through the pipeline, the
\* four status counters add up to summary.total, which is the number of houses
\* of the block, also after a house update that names a key the block does not
\* hold.
CountersPartitionHouses ==
    \A c \in Clients :
        Loaded(c)
        => \A block \in Blocks(Doc(c)) :
              /\ CounterSum(block) = block.summary.total
              /\ block.summary.total = Cardinality(DOMAIN block.houses)

\* the mutator the writer runs in this step, when the step is a mutation named name
Ran(name) ==
    /\ MutationStep
    /\ applied'[Writer][Len(applied'[Writer])].name = name

Latest == applied'[Writer][Len(applied'[Writer])]

\* the houses of block b of territory t in the writer's document
HousesOf(t, b) == Doc(Writer).territories[t].blocks[b].houses

\* the same houses once the step is taken
HousesAfter(t, b) == appState'[Writer][1].territories[t].blocks[b].houses

\* the value after status in 1 -> 2 -> 3 -> 4 -> 1
Successor(status) == IF status = 4 THEN 1 ELSE status + 1

\* C21: a status cycle moves the house to the next value of 1 -> 2 -> 3 -> 4 -> 1,
\* and from the status the house started with, four cycles in a row lead back
\* to that status.
CycleAdvances ==
    [][Ran("cycle") =>
          LET t == Latest.args[1]
              b == Latest.args[2]
              h == Latest.args[3]
              old == HousesOf(t, b)[h].status
          IN  /\ old \in 1..4
              /\ HousesAfter(t, b)[h].status = Successor(old)
              /\ NextStatus(NextStatus(NextStatus(NextStatus(old)))) = old]_vars

\* the one mutation run was a cycle of house "1", loaded with status 4 (the
\* sample that carries notes and an earlier visit): it now has status 1
CycleWrapsWitness ==
    /\ Len(applied[Writer]) = 1
    /\ applied[Writer][1].name = "cycle"
    /\ remoteFile = yamlDump(WithHouses("1" :> House(4, "1", "7", "n", Earlier)))
    /\ Loaded(Writer)
    /\ HousesOf("01", "1")["1"].status = 1

\* house h of block b of territory t is in the writer's document
Held(t, b, h) ==
    /\ t \in DOMAIN Doc(Writer).territories
    /\ b \in DOMAIN Doc(Writer).territories[t].blocks
    /\ h \in DOMAIN HousesOf(t, b)

\* the step is the status cycle of exactly that house
Cycles(t, b, h) == Ran("cycle") /\ <<t, b, h>> = SubSeq(Latest.args, 1, 3)

\* C22: the last visit of a house is null from its creation on, every status
\* cycle sets it to the time of the call, and no other mutation made through
\* the page (house update, resequencing, block update) changes it.
LastVisitByCycleOnly ==
    [][MutationStep =>
          \A t \in DOMAIN appState'[Writer][1].territories :
          \A b \in DOMAIN appState'[Writer][1].territories[t].blocks :
          \A h \in DOMAIN HousesAfter(t, b) :
              HousesAfter(t, b)[h].lastVisit =
                  IF Cycles(t, b, h) THEN Latest.args[4]
                  ELSE IF Held(t, b, h) THEN HousesOf(t, b)[h].lastVisit
                  ELSE NullVisit]_vars

\* house "1", loaded never visited, was cycled and then edited: it carries
\* the time of the cycle and the edited fields
LastVisitWitness ==
    /\ remoteFile = yamlDump(WithHouses("1" :> House(1, "1", "", "", NullVisit)))
    /\ Len(applied[Writer]) = 2
    /\ applied[Writer][1].name = "cycle"
    /\ applied[Writer][2].name = "house"
    /\ Loaded(Writer)
    /\ Held("01", "1", "1")
    /\ HousesOf("01", "1")["1"].lastVisit = applied[Writer][1].args[4]
    /\ HousesOf("01", "1")["1"].notes = "n"

\* what a resequencing to max leaves of the houses old, in the block after
Resequenced(old, after, max) ==
    /\ \A i \in 1..max :
          LET key == String(i)
          IN  /\ key \in DOMAIN after.houses
              /\ after.houses[key] =
                    IF key \in DOMAIN old
                      THEN [old[key] EXCEPT !.chalkNumber = key]
                      ELSE House(1, key, "", "", NullVisit)
    /\ \A h \in DOMAIN old : Number(h) > max => h \notin DOMAIN after.houses
    /\ \A h \in DOMAIN after.houses : h \in DOMAIN old \/ Number(h) \in 1..max
    /\ Counted(after)
    /\ (DOMAIN old = {} /\ max = 3)
          => /\ DOMAIN after.houses = {"1", "2", "3"}
             /\ \A h \in DOMAIN after.houses : after.houses[h].status = 1
             /\ after.summary = [total |-> 3, verde |-> 3, amarelo |-> 0,
                                 laranja |-> 0, vermelho |-> 0]

\* C23: resequencing a block to max = N leaves houses 1..N, each with its key
\* as chalk number; those that existed keep status, notes, official number and
\* last visit, the new ones have status 1 and no last visit; every house keyed
\* above N is removed; the summary counts the new houses. An empty block
\* resequenced to 3 holds exactly houses 1, 2, 3 with status 1 and the summary
\* total 3, verde 3.
ResequencingRebuilds ==
    [][Ran("chalk") =>
          LET t == Latest.args[1]
              b == Latest.args[2]
          IN  Resequenced(HousesOf(t, b),
                          appState'[Writer][1].territories[t].blocks[b],
                          Latest.args[3])]_vars

\* the empty block resequenced to 3
ResequencingWitness ==
    /\ remoteFile = yamlDump(WithHouses([k \in {} |-> NewHouse(k)]))
    /\ Len(applied[Writer]) = 1
    /\ applied[Writer][1] = Mutator("chalk", <<"01", "1", 3>>)
    /\ Loaded(Writer)
    /\ DOMAIN HousesOf("01", "1") = {"1", "2", "3"}
    /\ Doc(Writer).territories["01"].blocks["1"].summary.verde = 3

\* the chalk numbers of the houses of a block are 1..max, one house each
Contiguous(block, max) ==
    /\ {Number(block.houses[h].chalkNumber) : h \in DOMAIN block.houses} = 1..max
    /\ Cardinality(DOMAIN block.houses) = max

\* C24: after a block is resequenced to max = N the chalk numbers of its
\* houses are exactly 1..N, without gap or duplicate and with none outside
\* 1..N, whatever keys the block held before.
ChalkNumbersContiguous ==
    [][Ran("chalk") =>
          Contiguous(appState'[Writer][1].territories[Latest.args[1]].blocks[Latest.args[2]],
                     Latest.args[3])]_vars

\* the writer logs in
LoginStep == userRole[Writer] = Null /\ userRole'[Writer] # Null

\* the identities of the rows, trimmed and lower-cased, the empty one dropped
Identities(rows) == {Sanitize(rows[i][1]) : i \in DOMAIN rows} \ {""}

\* the roles the rows give to identity e
RolesGiven(rows, e) == {rows[i][2] : i \in {j \in DOMAIN rows : Sanitize(rows[j][1]) = e}}

\* C25: at login the identity, trimmed and lower-cased, gets the role the
\* mapping of the current local document gives it, and Comum when the mapping
\* does not hold it; after a bulk replacement, rows repeating an identity
\* included, the mapping holds each submitted identity once, with a role
\* submitted for it.
LoginResolvesRole ==
    [][/\ LoginStep =>
            LET id == activeEmail'[Writer]
                roles == Doc(Writer).appConfig.userRoles
            IN  /\ id # ""
                /\ \E raw \in RawEmails : id = Sanitize(raw)
                /\ userRole'[Writer] =
                      IF id \in DOMAIN roles THEN roles[id] ELSE "Comum"
       /\ Ran("userRoles") =>
            LET roles == appState'[Writer][1].appConfig.userRoles
            IN  \E rows \in RoleRows :
                    /\ DOMAIN roles = Identities(rows)
                    /\ \A e \in DOMAIN roles : roles[e] \in RolesGiven(rows, e)]_vars

\* after a replacement of the mapping, " U@X " typed at login is the Admin u@x
LoginWitness ==
    /\ applied[Writer] # <<>>
    /\ applied[Writer][Len(applied[Writer])].name = "userRoles"
    /\ activeEmail[Writer] = "u@x"
    /\ userRole[Writer] = "Admin"
    /\ Loaded(Writer)
    /\ Doc(Writer).appConfig.userRoles["u@x"] = "Admin"

DeleteTerritoryFrame ==
    [][Ran("deleteTerritory") =>
          LET t == Latest.args[1]
              old == Doc(Writer)
              new == appState'[Writer][1]
          IN  /\ DOMAIN new.territories = DOMAIN old.territories \ {t}
              /\ \A u \in DOMAIN new.territories : new.territories[u] = old.territories[u]
              /\ new.appConfig = old.appConfig
              /\ selectedTerritoryId[Writer] = t
                    => /\ selectedTerritoryId'[Writer] = Null
                       /\ selectedBlockId'[Writer] = Null]_vars

\* territory "02" was created and the selected territory "01" deleted:
\* "02" is what the document holds, and nothing is selected
DeleteTerritoryWitness ==
    /\ Len(applied[Writer]) = 2
    /\ applied[Writer][1].name = "territory"
    /\ applied[Writer][2] = Mutator("deleteTerritory", <<"01">>)
    /\ Loaded(Writer)
    /\ DOMAIN Doc(Writer).territories = {"02"}
    /\ selectedTerritoryId[Writer] = Null
    /\ selectedBlockId[Writer] = Null

\* the mapping roles is the rows: their identities normalised, the empty ones
\* dropped, each identity with the role of its last row
IsRows(roles, rows) ==
    /\ DOMAIN roles = Identities(rows)
    /\ \A i \in DOMAIN rows :
          (/\ Sanitize(rows[i][1]) # ""
           /\ \A j \in DOMAIN rows : j > i => Sanitize(rows[j][1]) # Sanitize(rows[i][1]))
          => roles[Sanitize(rows[i][1])] = rows[i][2]

\* C28: a bulk replacement rewrites the role mapping wholesale: afterwards it
\* consists of exactly the submitted rows, identities trimmed and lower-cased
\* and rows with an empty identity dropped; no entry of the previous mapping
\* survives unless resubmitted, and the territories are unchanged.
RolesReplacedWholesale ==
    [][Ran("userRoles") =>
          LET old == Doc(Writer)
              new == appState'[Writer][1]
          IN  /\ \E rows \in RoleRows :
                    /\ IsRows(new.appConfig.userRoles, rows)
                    /\ \A e \in DOMAIN old.appConfig.userRoles :
                          e \in DOMAIN new.appConfig.userRoles => e \in Identities(rows)
              /\ new.territories = old.territories]_vars

\* the mapping that listed the super admin was replaced by rows naming u@x
\* twice and an empty identity: it holds u@x alone, with the role of the last row
RolesReplacedWitness ==
    /\ Len(applied[Writer]) = 1
    /\ applied[Writer][1].name = "userRoles"
    /\ Loaded(Writer)
    /\ DOMAIN Doc(Writer).appConfig.userRoles = {"u@x"}
    /\ Doc(Writer).appConfig.userRoles["u@x"] = "Comum"
    /\ Doc(Writer).territories = InitialDoc.territories

(***************************************************************************)
(* Participant registry: seeding and registration.                         *)
(***************************************************************************)
\* the items that hold no persisted participant
NothingPersisted(raw) ==
    raw \in {NoItem, EmptyText, Unparsable, jsonStringify(JsNull),
             jsonStringify(Array(<<>>))}

\* the registry holds the participants of list, each with an objectives array
Holds(held, list) ==
    /\ IsArray(held)
    /\ Len(all(held)) = Len(list)
    /\ \A i \in DOMAIN list :
          /\ "objectives" \in DOMAIN all(held)[i]
          /\ \A key \in DOMAIN list[i] \ {"objectives"} : all(held)[i][key] = list[i][key]

\* C29: a registry constructed over a storage with no persisted participants
\* (no item, an unparsable item, an empty list) holds exactly the sample
\* participants and has persisted them, each participant with an objectives
\* array; constructed over a stored non-empty list it holds that list.
RegistrySeeding ==
    [][NewRegistry =>
          /\ NothingPersisted(storage) =>
                /\ Holds(participants', SAMPLE_PARTICIPANTS)
                /\ Len(all(participants')) = Len(SAMPLE_PARTICIPANTS)
                /\ read(storage') = Array(SAMPLE_PARTICIPANTS)
          /\ \A list \in StoredLists :
                storage = jsonStringify(Array(list)) => Holds(participants', list)]_vars

\* objectives are those of given that the table allows, each once
IsRestriction(objectives, given) ==
    /\ \A i, j \in DOMAIN objectives : objectives[i] = objectives[j] => i = j
    /\ {objectives[i] : i \in DOMAIN objectives}
         = {given[i] : i \in DOMAIN given} \cap OBJECTIVES

\* C30: addParticipant with a valid payload returns a participant with an id;
\* afterwards all() has exactly one participant with that id, carrying the
\* given classification, status and objectives (those allowed, each once),
\* every participant stored before under another id is still there, and the
\* storage holds the list of the registry; an id already present is replaced.
Registration ==
    [][\A rawParticipant \in Payloads, generated \in GeneratedIds, now \in Times :
          addParticipant(rawParticipant, generated, now)
            /\ ~normaliseThrows(rawParticipant) =>
          /\ ~returned'.threw
          /\ "id" \in DOMAIN returned'.value[1]
          /\ LET novo == returned'.value[1]
                 same == {i \in DOMAIN all(participants') :
                             all(participants')[i].id = novo.id}
             IN  /\ Cardinality(same) = 1
                 /\ \A i \in same :
                       /\ all(participants')[i].classification
                            = rawParticipant.classification
                       /\ "status" \in DOMAIN rawParticipant =>
                             all(participants')[i].status = rawParticipant.status
                       /\ IsRestriction(all(participants')[i].objectives,
                                        Given(rawParticipant, "objectives", <<>>))
                 /\ \A j \in DOMAIN all(participants) :
                       all(participants)[j].id # novo.id =>
                          \E k \in DOMAIN all(participants') :
                             all(participants')[k] = all(participants)[j]
          /\ read(storage') = participants']_vars

\* the participants of the list assigned objective whose status is status
AssignedWith(held, objective, status) ==
    {i \in DOMAIN held :
        /\ \E k \in DOMAIN held[i].objectives : held[i].objectives[k] = objective
        /\ held[i].status = status}

\* C31: generateScheduleAdjustments(objective, required) gives available = the
\* number of active participants assigned the objective, shortage = max(0,
\* required - available), absent = exactly the assigned participants that are
\* absent, suggestions = substitutes assigned the objective, min(shortage,
\* number of such substitutes) of them and none when the shortage is 0, and
\* the special demand as given; the registry and its storage are unchanged.
ScheduleAdjusted ==
    [][\A objective \in Objectives, date \in Dates, required \in 0..MaxRequired,
          specialDemand \in Demands :
          generateScheduleAdjustments(objective, date, required, specialDemand)
            /\ objective \in OBJECTIVES =>
          /\ ~returned'.threw
          /\ LET result == returned'.value[1]
                 held == all(participants)
                 active == AssignedWith(held, objective, "ACTIVE")
                 absent == AssignedWith(held, objective, "ABSENT")
                 substitutes == AssignedWith(held, objective, "SUBSTITUTE")
                 short == IF required > Cardinality(active)
                            THEN required - Cardinality(active) ELSE 0
             IN  /\ result.available = Cardinality(active)
                 /\ result.shortage = short
                 /\ Len(result.absent) = Cardinality(absent)
                 /\ {result.absent[i].id : i \in DOMAIN result.absent}
                      = {held[i].id : i \in absent}
                 /\ Len(result.suggestions)
                      = IF short < Cardinality(substitutes)
                          THEN short ELSE Cardinality(substitutes)
                 /\ \A i, j \in DOMAIN result.suggestions :
                       result.suggestions[i].id = result.suggestions[j].id => i = j
                 /\ {result.suggestions[i].id : i \in DOMAIN result.suggestions}
                      \subseteq {held[i].id : i \in substitutes}
                 /\ result.specialDemand = specialDemand
          /\ UNCHANGED <<participants, storage>>]_vars

\* the ids of the participants the registry holds
IdsOf(held) == {held[i].id : i \in DOMAIN held}

\* C32: updateStatus(id, status) with a valid status and an existing id changes
\* that participant's status, persists the change (the storage holds the list
\* of the registry) and leaves the set of participants and every field of
\* every other participant unchanged; with an invalid status or an unknown id
\* it raises an error and leaves the list and the storage unchanged.
StatusUpdated ==
    [][\A id \in UpdatedIds, status \in Statuses, now \in Times :
          updateStatus(id, status, now) =>
             IF /\ status \in PARTICIPATION_STATUS
                /\ IsArray(participants)
                /\ id \in IdsOf(all(participants))
               THEN /\ ~returned'.threw
                    /\ Len(all(participants')) = Len(all(participants))
                    /\ IdsOf(all(participants')) = IdsOf(all(participants))
                    /\ \A i \in DOMAIN all(participants') :
                          all(participants')[i].id = id =>
                             all(participants')[i].status = status
                    /\ \A j \in DOMAIN all(participants) :
                          all(participants)[j].id # id =>
                             \E k \in DOMAIN all(participants') :
                                all(participants')[k] = all(participants)[j]
                    /\ read(storage') = participants'
               ELSE /\ returned'.threw
                    /\ UNCHANGED <<participants, storage>>]_vars

\* a sample participant stored as active has been made absent, and the storage
\* holds the list with the change
StatusUpdatedWitness ==
    /\ returned.call = "updateStatus"
    /\ ~returned.threw
    /\ returned.value[1].id = "p-anci-1"
    /\ returned.value[1].status = "ABSENT"
    /\ IsArray(participants)
    /\ Len(all(participants)) = Len(SAMPLE_PARTICIPANTS)
    /\ \E i \in DOMAIN all(participants) :
          all(participants)[i].id = "p-anci-1" /\ all(participants)[i].status = "ABSENT"
    /\ read(storage) = participants

(***************************************************************************)
(* Interval ticks, fetches in flight together, and frames of the mutators. *)
(***************************************************************************)
\* C33: an interval tick first reads only the remote version tag: when it
\* equals the last-known tag no reload starts and the local document and the
\* last-known tag stay as they are; a reload starts on a tick only when the
\* tags differ; and while no tag is known a tick sends no request.
TickComparesTags ==
    [][\A i \in Slots :
          /\ PollRespond(Writer, i) =>
                /\ UNCHANGED <<appState, remoteSha>>
                /\ ShaOf(remoteFile) = remoteSha[Writer] => calls'[Writer][i] = IdleCall
                /\ calls'[Writer][i].kind = "fetch" => ShaOf(remoteFile) # remoteSha[Writer]
          /\ calls[Writer][i].kind # "poll" /\ calls'[Writer][i].kind = "poll" =>
                remoteSha[Writer] # NoSha]_vars

\* C34: with several fetches in flight there is no cancellation and no ordering
\* check: the response of a fetch that completes replaces the local document and
\* the last-known tag together, also when it carries an older remote version
\* than the one already applied, and leaves the other fetches in flight; nothing
\* but a later fetch corrects the state.
NoOrderingCheck ==
    [][\A i \in Slots :
          FetchDeliver(Writer, i) /\ IsDocument(decodeBase64(calls[Writer][i].content[1]))
          => /\ appState'[Writer] = <<yamlLoad(decodeBase64(calls[Writer][i].content[1]))>>
             /\ remoteSha'[Writer] = calls[Writer][i].sha
             /\ \A j \in Slots \ {i} :
                   calls[Writer][j].kind = "fetch" => calls'[Writer][j] = calls[Writer][j]]_vars

\* the writer at rest after its commit was written and refetched: a fetch that
\* had read the file before the write completed last, so the writer holds the
\* older document under the older tag and nothing in flight will correct it
NoOrderingCheckWitness ==
    /\ Quiescent(Writer)
    /\ Loaded(Writer)
    /\ applied[Writer] # <<>>
    /\ history # <<>>
    /\ basis[Writer] < RemoteVer
    /\ remoteSha[Writer] # ShaOf(remoteFile)
    /\ remoteSha[Writer] = ShaOf(yamlDump(Doc(Writer)))

\* slot i holds a commit that is in flight before and after the step, and the
\* local view is the document that commit is writing
PendingInView(i) ==
    /\ calls[Writer][i].kind = "commit"
    /\ calls'[Writer][i].kind = "commit"
    /\ appState[Writer] = calls[Writer][i].state

\* C35 as stated: an optimistic mutation stays in the local view until its own
\* commit attempt has resolved: while the commit is in flight only a further
\* mutation changes the view, and a refetch completing meanwhile does not.
OptimisticStays ==
    [][\A i \in Slots :
          PendingInView(i) /\ appState'[Writer] # appState[Writer] => MutationStep]_vars

\* C35 as amended: an optimistic mutation stays in the local view while its
\* commit attempt is in flight unless a fetch completes meanwhile: only a
\* further mutation or the delivery of a fetch changes the view.
OptimisticStaysUntilFetch ==
    [][\A i \in Slots :
          PendingInView(i) /\ appState'[Writer] # appState[Writer]
          => MutationStep \/ \E j \in Slots : FetchDeliver(Writer, j)]_vars

\* the commit of the second mutation is in flight while the view is the
\* document the first commit wrote, refetched: the second mutation is not in it
OptimisticStaysWitness ==
    /\ Len(applied[Writer]) = 2
    /\ Len(history) = 1
    /\ basis[Writer] = 1
    /\ appState[Writer] = <<history[1].state>>
    /\ \E i \in Slots :
          /\ calls[Writer][i].kind = "commit"
          /\ calls[Writer][i].state # appState[Writer]
          /\ calls[Writer][i].seq = 2

\* the role the mapping of a document gives an identity: the lowest when absent
MappedRole(doc, email) ==
    IF email \in DOMAIN doc.appConfig.userRoles
      THEN doc.appConfig.userRoles[email] ELSE "Comum"

\* C36: while a session is active its role is the one the mapping of the current
\* local document gives the active identity (the lowest if it is absent), also
\* after the mapping was replaced or a refetch brought another one: a demoted or
\* removed identity does not keep its former capabilities.
SessionRoleCurrent ==
    (userRole[Writer] # Null /\ Loaded(Writer))
    => userRole[Writer] = MappedRole(Doc(Writer), activeEmail[Writer])

\* C37: creating a territory (no id supplied) adds exactly one territory, under
\* a key that was not there: the two-digit form of the largest numeric key plus
\* one; it has the given name, status and last use and no blocks, and every
\* territory there was is unchanged. Updating an existing territory changes
\* only its name, status and last use: its blocks and houses, the set of
\* territories and every other territory stay.
TerritorySaved ==
    [][Ran("territory") =>
          LET id == Latest.args[1]
              old == Doc(Writer).territories
              new == appState'[Writer][1].territories
              given == [name |-> Latest.args[2], status |-> Latest.args[3],
                        lastUse |-> Latest.args[4]]
              Same(u) == new[u] = old[u]
              Fields(u) == [f \in {"name", "status", "lastUse"} |-> new[u][f]]
          IN  /\ appState'[Writer][1].appConfig = Doc(Writer).appConfig
              /\ id = Null =>
                    \E k \in DOMAIN new \ DOMAIN old :
                       /\ DOMAIN new = DOMAIN old \cup {k}
                       /\ \E n \in DOMAIN Padded :
                             /\ k = Padded[n]
                             /\ \A u \in DOMAIN old : Number(u) < n
                             /\ n = 1 \/ \E u \in DOMAIN old : Number(u) = n - 1
                       /\ Fields(k) = given
                       /\ new[k].blocks = EmptyObj
                       /\ \A u \in DOMAIN old : Same(u)
              /\ id \in DOMAIN old =>
                    /\ DOMAIN new = DOMAIN old
                    /\ Fields(id) = given
                    /\ new[id].blocks = old[id].blocks
                    /\ \A u \in DOMAIN old \ {id} : Same(u)]_vars

\* territory "02" was created and then territory "01", which holds a block,
\* was updated: "01" has the new last use and still its block, "02" no block
TerritorySavedWitness ==
    /\ Len(applied[Writer]) = 2
    /\ applied[Writer][1] = Mutator("territory", <<Null, "T", "Em Uso", "2025">>)
    /\ applied[Writer][2] = Mutator("territory", <<"01", "T", "Em Uso", "2025">>)
    /\ Loaded(Writer)
    /\ DOMAIN Doc(Writer).territories = {"01", "02"}
    /\ Doc(Writer).territories["01"].lastUse = "2025"
    /\ DOMAIN Doc(Writer).territories["01"].blocks = {"1"}
    /\ Doc(Writer).territories["02"].blocks = EmptyObj

\* the number of houses with status s
WithStatus(houses, s) == Cardinality({h \in DOMAIN houses : houses[h].status = s})

\* the summary counts the houses
Summarises(summary, houses) ==
    /\ summary.total = Cardinality(DOMAIN houses)
    /\ summary.verde = WithStatus(houses, 1)
    /\ summary.amarelo = WithStatus(houses, 2)
    /\ summary.laranja = WithStatus(houses, 3)
    /\ summary.vermelho = WithStatus(houses, 4)

\* the keys "1" .. "N"
KeysTo(n) == {Digits[i] : i \in 1..n}

\* C38: a block saved with house count N. Created (no id supplied), it is added
\* under a new key, the largest numeric block key plus one, with houses keyed
\* 1..N, each of status 1, with its key as chalk number and no last visit, and
\* with the summary total N, verde N. Updated, it gets the image locator given
\* and the houses among 1..N it did not hold; no house it held is deleted or
\* modified (those keyed above N remain), and the summary counts the resulting
\* houses.
BlockSaved ==
    [][Ran("upsertBlock") =>
          LET t == Latest.args[1]
              id == Latest.args[2]
              N == Latest.args[4]
              old == Doc(Writer).territories[t].blocks
              new == appState'[Writer][1].territories[t].blocks
          IN  /\ id = Null =>
                    \E k \in DOMAIN new \ DOMAIN old :
                       /\ DOMAIN new = DOMAIN old \cup {k}
                       /\ \E n \in DOMAIN Digits :
                             /\ k = Digits[n]
                             /\ \A u \in DOMAIN old : Number(u) < n
                             /\ n = 1 \/ \E u \in DOMAIN old : Number(u) = n - 1
                       /\ DOMAIN new[k].houses = KeysTo(N)
                       /\ \A h \in KeysTo(N) :
                             /\ new[k].houses[h].status = 1
                             /\ new[k].houses[h].chalkNumber = h
                             /\ new[k].houses[h].lastVisit = NullVisit
                       /\ new[k].summary.total = N
                       /\ new[k].summary.verde = N
              /\ id \in DOMAIN old =>
                    /\ DOMAIN new = DOMAIN old
                    /\ new[id].imageUrl = Latest.args[3]
                    /\ DOMAIN new[id].houses = DOMAIN old[id].houses \cup KeysTo(N)
                    /\ \A h \in DOMAIN old[id].houses : new[id].houses[h] = old[id].houses[h]
                    /\ Summarises(new[id].summary, new[id].houses)]_vars

\* the block holding a visited house "1" and a house "3" was updated with
\* count 2 and then a block was created with count 2: block "1" has the new
\* image locator, its two houses as they were and house "2"; block "2" is new
BlockSavedWitness ==
    /\ Len(applied[Writer]) = 2
    /\ applied[Writer][1] = Mutator("upsertBlock", <<"01", "1", "img", 2>>)
    /\ applied[Writer][2] = Mutator("upsertBlock", <<"01", Null, "img", 2>>)
    /\ Loaded(Writer)
    /\ DOMAIN Doc(Writer).territories["01"].blocks = {"1", "2"}
    /\ Doc(Writer).territories["01"].blocks["1"].imageUrl = "img"
    /\ DOMAIN HousesOf("01", "1") = {"1", "2", "3"}
    /\ HousesOf("01", "1")["1"] = House(2, "1", "7", "n", Earlier)
    /\ HousesOf("01", "1")["3"] = House(4, "3", "", "", Earlier)
    /\ DOMAIN HousesOf("01", "2") = {"1", "2"}

\* the document but for block b of territory t
Elsewhere(doc, t, b) ==
    [doc EXCEPT !.territories[t].blocks = Delete(@, b)]

\* the block but for its summary and its house h
OtherHouses(block, h) ==
    [imageUrl |-> block.imageUrl, houses |-> Delete(block.houses, h)]

\* the step changes, in block b of territory t, at most the fields of house h
\* and the summary, and nothing anywhere else in the document
LocalTo(t, b, h, fields) ==
    LET old == Doc(Writer)
        new == appState'[Writer][1]
    IN  /\ Elsewhere(new, t, b) = Elsewhere(old, t, b)
        /\ b \in DOMAIN new.territories[t].blocks
        /\ OtherHouses(new.territories[t].blocks[b], h)
              = OtherHouses(old.territories[t].blocks[b], h)
        /\ h \in DOMAIN new.territories[t].blocks[b].houses
        /\ h \in DOMAIN old.territories[t].blocks[b].houses
              => \A f \in DOMAIN NoHouse \ fields :
                    new.territories[t].blocks[b].houses[h][f]
                       = old.territories[t].blocks[b].houses[h][f]

\* C39: house-level mutations are local in effect. A status cycle changes only
\* the status and the last visit of the house cycled; an update of the fields
\* of a house changes only the fields supplied, of the house the edit
\* addresses: the territory, block and house key the edit form was opened on.
\* In both cases only the summary of that block may change besides, and every
\* other house, block and territory and the configuration are as they were.
HouseMutationsLocal ==
    [][/\ Ran("cycle") =>
            LocalTo(Latest.args[1], Latest.args[2], Latest.args[3], {"status", "lastVisit"})
       /\ (Ran("house") /\ houseEditContext[Writer] # <<>>) =>
            LET edit == houseEditContext[Writer][1]
            IN  LocalTo(edit.territoryId, edit.blockId, edit.houseId,
                        {"officialNumber", "notes"})]_vars

====
